---- MODULE Spec2Model ----
(***************************************************************************)
(* Model of the Calico Whisker MCP server: the analysis service           *)
(* (src/dist/services/calico-whisker.js), the policy draft generator       *)
(* (src/dist/services/log-filter.js) and the tool request handler          *)
(* (index.ts).                                                             *)
(*                                                                         *)
(* Spec            : CalicoWhiskerService.getNamespaceFlowSummary          *)
(* SpecAnalyze     : CalicoWhiskerService.analyzeBlockedFlows with its     *)
(*                   concurrent retrievePolicyDetails lookups              *)
(* FairSpecAnalyze : the same over records with kubectl lookups, with the  *)
(*                   event loop's fairness                                 *)
(* SpecPolicies    : LogFilterService.generateCalicoNetworkPolicies        *)
(* SpecServer      : the CallTool handler serving requests one by one      *)
(* SpecLabels      : LogFilterService.extractLabelValue                    *)
(* SpecForward     : setupPortForward, stopPortForward and the events of   *)
(*                   the kubectl port-forward child processes              *)
(* SpecConnect     : handleConnectToCluster, one request after the other   *)
(*                                                                         *)
(* Strings that the code joins or compares for equality are TLA+ strings   *)
(* (joined with \o).  Timestamps, which the code orders with < and >, are  *)
(* sequences of one-character strings so that the ordering is computed     *)
(* character by character, as JavaScript does; the date prefix that all    *)
(* timestamps of one fetch share ("2025-07-02T22:54:0") is left out.       *)
(* Emoji in the output labels are written as ASCII tags: [ok] [alert] [x]. *)
(* Label strings, namespaces, protocols and ports of the policy generator, *)
(* which the code splits, trims and parses, are sequences of characters    *)
(* too; null and undefined are the values JsNull and JsUndefined.          *)
(***************************************************************************)
EXTENDS Integers, Sequences, FiniteSets, TLC

VARIABLES
    namespace,      \* the namespace argument of the request
    allLogs,        \* the records the Whisker backend holds (response.data.items)
    pc,             \* position of the running call
    namespaceLogs,  \* allLogs filtered to the namespace
    idx,            \* position of the forEach loop in namespaceLogs
    flowMap,        \* the Map flowKey -> flow, as the sequence of its entries in insertion order
    contributors,   \* per flowMap entry: the positions in namespaceLogs merged into it
    result,         \* the document the call returned
    thrown,         \* the message of the Error the call threw
    blockedLogs,    \* analyzeBlockedFlows: the selected Deny records
    tasks,          \* per blocked record: the async callback's findings so far and how each lookup settled
    completionOrder, \* the positions of the callbacks in the order in which they returned
    selectorKey,    \* generateCalicoNetworkPolicies: the selectorKey argument
    aggregatedLogs, \* the aggregatedLogs argument
    sourceGroups,   \* the Map selector value -> flows, as the sequence of its entries
    policies,       \* the policies pushed so far
    destFlowsOf,    \* per policy and egress rule: the destFlows the rule was built from
    server,         \* the MCP server process: "running" or "terminated"
    served,         \* the number of tool requests answered so far
    request,        \* the CallTool request being handled
    todo,           \* the calls the handler has still to await, in order
    calls,          \* the calls the handler has started for the request
    response,       \* the response to the request
    labelsArg,      \* extractLabelValue: the labels argument
    pairsWritten,   \* the pairs the labels argument was written from
    keyArg,         \* the key argument
    portForwardProcess, \* CalicoWhiskerService.portForwardProcess: 0 for null, else the child's number
    kubeconfigPath, \* CalicoWhiskerService.kubeconfigPath
    children,       \* the kubectl port-forward child processes spawned so far
    setups,         \* the setupPortForward invocations made so far
    kubectlLog,     \* the kubectl commands spawned so far, with the kubeconfig each was given
    k8sKubeconfigPath, \* KubernetesService.kubeconfigPath
    connectCount,   \* the number of connect_to_cluster requests received so far
    connectRequest, \* the connect_to_cluster request being handled
    connected       \* the kubeconfig argument of the last request that succeeded

summaryVars == <<namespaceLogs, idx, flowMap, contributors>>
analyzeVars == <<blockedLogs, tasks, completionOrder>>
policyVars == <<selectorKey, aggregatedLogs, sourceGroups, policies, destFlowsOf>>
serverVars == <<server, served, request, todo, calls, response>>
labelVars == <<labelsArg, pairsWritten, keyArg>>
forwardVars == <<portForwardProcess, kubeconfigPath, children, setups, kubectlLog>>
connectVars == <<k8sKubeconfigPath, connectCount, connectRequest, connected>>
vars == <<namespace, allLogs, pc, namespaceLogs, idx, flowMap, contributors, result, thrown,
          blockedLogs, tasks, completionOrder, selectorKey, aggregatedLogs, sourceGroups,
          policies, destFlowsOf, server, served, request, todo, calls, response,
          labelsArg, pairsWritten, keyArg, portForwardProcess, kubeconfigPath, children, setups,
          kubectlLog, k8sKubeconfigPath, connectCount, connectRequest, connected>>

-----------------------------------------------------------------------------
(* Bounds and input universe *)

MaxLogs == 3

NoValue == "none"

\* no generateCalicoNetworkPolicies call and no MCP server in this run
PoliciesIdle ==
    /\ selectorKey = NoValue
    /\ aggregatedLogs = <<>>
    /\ sourceGroups = <<>>
    /\ policies = <<>>
    /\ destFlowsOf = <<>>

ServerIdle ==
    /\ server = NoValue
    /\ served = 0
    /\ request = <<>>
    /\ todo = <<>>
    /\ calls = <<>>
    /\ response = <<>>

\* no extractLabelValue call, no port-forward and no connect request in this run
LabelsIdle ==
    /\ labelsArg = <<>>
    /\ pairsWritten = <<>>
    /\ keyArg = <<>>

ForwardIdle ==
    /\ portForwardProcess = 0
    /\ kubeconfigPath = NoValue
    /\ children = <<>>
    /\ setups = <<>>
    /\ kubectlLog = <<>>

ConnectIdle ==
    /\ k8sKubeconfigPath = NoValue
    /\ connectCount = 0
    /\ connectRequest = <<>>
    /\ connected = <<>>

\* Policy.trigger is a Policy or null: a sequence of at most one policy
NoTrigger == <<>>
Trigger(policy) == <<policy>>

Range(s) == {s[i] : i \in DOMAIN s}

SeqsUpTo(S, n) == UNION {[1..k -> S] : k \in 0..n}

\* "...:01Z", "...:01.5Z", "...:02Z", "...:02.5Z"
T1  == <<"1", "Z">>
T15 == <<"1", ".", "5", "Z">>
T2  == <<"2", "Z">>
T25 == <<"2", ".", "5", "Z">>

PolA == [name |-> "allow-dns", namespace |-> "a", kind |-> "NetworkPolicy", tier |-> "default",
         action |-> "Allow", policy_index |-> 0, rule_index |-> 0, trigger |-> NoTrigger]
PolB == [name |-> "default-deny", namespace |-> "a", kind |-> "CalicoNetworkPolicy", tier |-> "security",
         action |-> "Deny", policy_index |-> 1, rule_index |-> 0, trigger |-> NoTrigger]

\* What one reporter observed: the source side and the destination side see
\* the same conversation with their own window, counters and policy hits.
Observed(reporter) ==
    IF reporter = "Dst"
    THEN [start_time |-> T15, end_time |-> T25, packets_in |-> 5, packets_out |-> 2,
          bytes_in |-> 50, bytes_out |-> 20, enforced |-> <<PolB>>]
    ELSE [start_time |-> T1, end_time |-> T2, packets_in |-> 10, packets_out |-> 1,
          bytes_in |-> 100, bytes_out |-> 7, enforced |-> <<PolA>>]

\* (source_name, source_namespace, dest_namespace)
Endpoints == { <<"a|a", "a", "a">>, <<"a", "a|a", "a">>, <<"a", "b", "b">> }

Reporters == {"Src", "Dst", "Unknown"}
Actions == {"Allow", "Deny"}

FlowLog(e, action, reporter) ==
    LET o == Observed(reporter) IN
    [start_time |-> o.start_time, end_time |-> o.end_time, action |-> action,
     source_name |-> e[1], source_namespace |-> e[2],
     dest_name |-> "d", dest_namespace |-> e[3],
     protocol |-> "tcp", dest_port |-> 80, reporter |-> reporter,
     policies |-> [enforced |-> o.enforced, pending |-> <<>>],
     packets_in |-> o.packets_in, packets_out |-> o.packets_out,
     bytes_in |-> o.bytes_in, bytes_out |-> o.bytes_out]

\* Both reporters for the two sources whose names join to the same text, a
\* reporter that is neither side for one of them, and one record of
\* namespace "b" only (the filter drops it before any other field is read).
LogUniverse ==
    {FlowLog(e, a, r) : e \in {x \in Endpoints : x[3] = "a"}, a \in Actions, r \in {"Src", "Dst"}}
    \cup {FlowLog(<<"a|a", "a", "a">>, a, r) : a \in Actions, r \in Reporters \ {"Src", "Dst"}}
    \cup {FlowLog(<<"a", "b", "b">>, "Allow", "Src")}

Namespaces == {"a"}

-----------------------------------------------------------------------------
(* Timestamps *)

CharCode == ("." :> 46) @@ ("0" :> 48) @@ ("1" :> 49) @@ ("2" :> 50) @@ ("3" :> 51)
            @@ ("4" :> 52) @@ ("5" :> 53) @@ ("6" :> 54) @@ ("7" :> 55) @@ ("8" :> 56)
            @@ ("9" :> 57) @@ ("Z" :> 90)

IsDigit(c) == CharCode[c] >= 48 /\ CharCode[c] <= 57

\* JavaScript a < b on strings: lexicographic on code units
RECURSIVE StrLess(_, _)
StrLess(a, b) ==
    IF b = <<>> THEN FALSE
    ELSE IF a = <<>> THEN TRUE
    ELSE IF CharCode[Head(a)] # CharCode[Head(b)] THEN CharCode[Head(a)] < CharCode[Head(b)]
    ELSE StrLess(Tail(a), Tail(b))

\* a.localeCompare(b): for digits, '.' and 'Z' the collation order is the
\* code-unit order ('.' before digits before letters)
LocaleCompare(a, b) == IF StrLess(a, b) THEN -1 ELSE IF StrLess(b, a) THEN 1 ELSE 0

RECURSIVE ParseDigits(_, _)
ParseDigits(s, acc) ==
    IF s # <<>> /\ IsDigit(Head(s))
    THEN ParseDigits(Tail(s), acc * 10 + (CharCode[Head(s)] - 48))
    ELSE [val |-> acc, rest |-> s]

\* new Date(ts).getTime(), in ms from the shared prefix: seconds, then an
\* optional fraction of up to three digits
ParseTime(ts) ==
    LET sec == ParseDigits(ts, 0)
        frac == IF sec.rest # <<>> /\ Head(sec.rest) = "." THEN Tail(sec.rest) ELSE <<>>
        Digit(i) == IF Len(frac) >= i /\ IsDigit(frac[i]) /\ (\A j \in 1..i : IsDigit(frac[j]))
                    THEN CharCode[frac[i]] - 48 ELSE 0
    IN sec.val * 1000 + Digit(1) * 100 + Digit(2) * 10 + Digit(3)

-----------------------------------------------------------------------------
(* getNamespaceFlowSummary: aggregation *)

TouchesNamespace(log, ns) == log.source_namespace = ns \/ log.dest_namespace = ns

RECURSIVE FilterSeq(_, _)
FilterSeq(s, ns) ==
    IF s = <<>> THEN <<>>
    ELSE IF TouchesNamespace(Head(s), ns) THEN <<Head(s)>> \o FilterSeq(Tail(s), ns)
    ELSE FilterSeq(Tail(s), ns)

\* faulty variant: the key without the action component
FlowKey_NoAction(log) ==
    log.source_name \o "|" \o log.source_namespace \o "|" \o log.dest_name \o "|"
    \o log.dest_namespace \o "|" \o log.protocol \o "|" \o ToString(log.dest_port)

\* [..].join('|'); a number is joined as its decimal text
FlowKey(log) ==
    log.source_name \o "|" \o log.source_namespace \o "|" \o log.dest_name \o "|"
    \o log.dest_namespace \o "|" \o log.protocol \o "|" \o ToString(log.dest_port) \o "|"
    \o log.action

PolicyName(policy) == policy.name \o " (" \o policy.namespace \o ")"

PolicyNames(log) == {PolicyName(log.policies.enforced[i]) : i \in DOMAIN log.policies.enforced}

NewFlow(log) ==
    [source |-> log.source_name, sourceNamespace |-> log.source_namespace,
     destination |-> log.dest_name, destNamespace |-> log.dest_namespace,
     protocol |-> log.protocol, port |-> log.dest_port,
     sourceAction |-> IF log.reporter = "Src" THEN log.action ELSE "N/A",
     destAction |-> IF log.reporter = "Dst" THEN log.action ELSE "N/A",
     packetsIn |-> log.packets_in, packetsOut |-> log.packets_out,
     bytesIn |-> log.bytes_in, bytesOut |-> log.bytes_out,
     startTime |-> log.start_time, endTime |-> log.end_time,
     sourcePolicies |-> IF log.reporter = "Src" THEN PolicyNames(log) ELSE {},
     destPolicies |-> IF log.reporter = "Dst" THEN PolicyNames(log) ELSE {},
     enforcedPolicies |-> log.policies.enforced]

UpdateAction(current, action) ==
    IF current # "N/A" /\ current # action THEN current \o "+" \o action ELSE action

\* faulty variant: bytesIn accumulates the packet count
MergeCounters_BytesFromPackets(existing, log) ==
    [packetsIn |-> existing.packetsIn + log.packets_in,
     packetsOut |-> existing.packetsOut + log.packets_out,
     bytesIn |-> existing.bytesIn + log.packets_in,
     bytesOut |-> existing.bytesOut + log.bytes_out]

MergeCounters(existing, log) ==
    [packetsIn |-> existing.packetsIn + log.packets_in,
     packetsOut |-> existing.packetsOut + log.packets_out,
     bytesIn |-> existing.bytesIn + log.bytes_in,
     bytesOut |-> existing.bytesOut + log.bytes_out]

\* faulty variant: the end time of the last record wins
MergeTimeRange_LastEndWins(existing, log) ==
    [startTime |-> IF StrLess(log.start_time, existing.startTime) THEN log.start_time ELSE existing.startTime,
     endTime |-> log.end_time]

MergeTimeRange(existing, log) ==
    [startTime |-> IF StrLess(log.start_time, existing.startTime) THEN log.start_time ELSE existing.startTime,
     endTime |-> IF StrLess(existing.endTime, log.end_time) THEN log.end_time ELSE existing.endTime]

\* faulty variant: every record sets both sides
MergeActions_BothSides(existing, log) ==
    [sourceAction |-> UpdateAction(existing.sourceAction, log.action),
     destAction |-> UpdateAction(existing.destAction, log.action)]

MergeActions(existing, log) ==
    [sourceAction |-> IF log.reporter = "Src" THEN UpdateAction(existing.sourceAction, log.action)
                      ELSE existing.sourceAction,
     destAction |-> IF log.reporter = "Dst" THEN UpdateAction(existing.destAction, log.action)
                    ELSE existing.destAction]

MergePolicies(existing, log) ==
    [enforcedPolicies |-> existing.enforcedPolicies \o log.policies.enforced,
     sourcePolicies |-> IF log.reporter = "Src" THEN existing.sourcePolicies \cup PolicyNames(log)
                        ELSE existing.sourcePolicies,
     destPolicies |-> IF log.reporter = "Dst" THEN existing.destPolicies \cup PolicyNames(log)
                      ELSE existing.destPolicies]

MergeFlow(existing, log) ==
    LET c == MergeCounters(existing, log)
        t == MergeTimeRange(existing, log)
        p == MergePolicies(existing, log)
        a == MergeActions(existing, log)
    IN [existing EXCEPT !.packetsIn = c.packetsIn, !.packetsOut = c.packetsOut,
                        !.bytesIn = c.bytesIn, !.bytesOut = c.bytesOut,
                        !.startTime = t.startTime, !.endTime = t.endTime,
                        !.enforcedPolicies = p.enforcedPolicies,
                        !.sourcePolicies = p.sourcePolicies, !.destPolicies = p.destPolicies,
                        !.sourceAction = a.sourceAction, !.destAction = a.destAction]

HasKey(fm, key) == \E i \in DOMAIN fm : fm[i].key = key

IndexOfKey(fm, key) == CHOOSE i \in DOMAIN fm : fm[i].key = key

\* one iteration of namespaceLogs.forEach
AggregateLog(fm, log) ==
    LET key == FlowKey(log) IN
    IF HasKey(fm, key)
    THEN [fm EXCEPT ![IndexOfKey(fm, key)].value = MergeFlow(@, log)]
    ELSE Append(fm, [key |-> key, value |-> NewFlow(log)])

RECURSIVE AggregateFrom(_, _)
AggregateFrom(fm, logs) ==
    IF logs = <<>> THEN fm ELSE AggregateFrom(AggregateLog(fm, Head(logs)), Tail(logs))

Aggregate(logs) == AggregateFrom(<<>>, logs)

-----------------------------------------------------------------------------
(* getNamespaceFlowSummary: projection and statistics *)

FormatAction(action) ==
    IF action = "Allow" THEN "[ok] Allow"
    ELSE IF action = "Deny" THEN "[alert] Deny"
    ELSE IF action = "N/A" THEN "[x] N/A"
    ELSE action

\* Array.prototype.sort is stable: x goes after every element that does not
\* compare greater than it
RECURSIVE InsertByStartTime(_, _)
InsertByStartTime(sorted, x) ==
    IF sorted = <<>> THEN <<x>>
    ELSE IF LocaleCompare(Head(sorted).startTime, x.startTime) > 0 THEN <<x>> \o sorted
    ELSE <<Head(sorted)>> \o InsertByStartTime(Tail(sorted), x)

RECURSIVE SortByStartTime(_)
SortByStartTime(s) ==
    IF s = <<>> THEN <<>>
    ELSE InsertByStartTime(SortByStartTime(SubSeq(s, 1, Len(s) - 1)), s[Len(s)])

MapValues(fm) == [i \in DOMAIN fm |-> fm[i].value]

PolicyDetail(policy) ==
    [name |-> policy.name, namespace |-> policy.namespace, kind |-> policy.kind,
     tier |-> policy.tier, action |-> policy.action,
     policyIndex |-> policy.policy_index, ruleIndex |-> policy.rule_index]

\* faulty variant: only the source side is looked at
FlowStatus_SourceOnly(flow) ==
    IF flow.sourceAction = "Deny" THEN "[alert] BLOCKED" ELSE "[ok] ALLOWED"

FlowStatus(flow) ==
    IF flow.sourceAction = "Deny" \/ flow.destAction = "Deny" THEN "[alert] BLOCKED" ELSE "[ok] ALLOWED"

\* the .sort()-ed arrays of unique names are modelled as the sets they list
ProjectFlow(flow) ==
    [source |-> [name |-> flow.source, namespace |-> flow.sourceNamespace,
                 action |-> FormatAction(flow.sourceAction), policies |-> flow.sourcePolicies],
     destination |-> [name |-> flow.destination, namespace |-> flow.destNamespace,
                      action |-> FormatAction(flow.destAction), policies |-> flow.destPolicies],
     connection |-> [protocol |-> flow.protocol, port |-> flow.port],
     enforcement |-> [totalPolicies |-> Len(flow.enforcedPolicies),
                      uniquePolicies |-> {PolicyName(flow.enforcedPolicies[i]) : i \in DOMAIN flow.enforcedPolicies},
                      policyDetails |-> [i \in DOMAIN flow.enforcedPolicies |-> PolicyDetail(flow.enforcedPolicies[i])]],
     traffic |-> [packets |-> [in |-> flow.packetsIn, out |-> flow.packetsOut,
                               total |-> flow.packetsIn + flow.packetsOut],
                  bytes |-> [in |-> flow.bytesIn, out |-> flow.bytesOut,
                             total |-> flow.bytesIn + flow.bytesOut]],
     timeRange |-> [start |-> flow.startTime, end |-> flow.endTime,
                    duration |-> ParseTime(flow.endTime) - ParseTime(flow.startTime)],
     status |-> FlowStatus(flow)]

ProjectFlows(fm) ==
    LET sorted == SortByStartTime(MapValues(fm)) IN [i \in DOMAIN sorted |-> ProjectFlow(sorted[i])]

RECURSIVE SumSeq(_)
SumSeq(s) == IF s = <<>> THEN 0 ELSE Head(s) + SumSeq(Tail(s))

RECURSIVE FlatDetails(_)
FlatDetails(flows) ==
    IF flows = <<>> THEN <<>> ELSE Head(flows).enforcement.policyDetails \o FlatDetails(Tail(flows))

IsBlockedStatus(status) == status = "[alert] BLOCKED"

\* faulty variant: a test for a text that both status labels contain
IsAllowedStatus_MatchesBoth(status) == status \in {"[alert] BLOCKED", "[ok] ALLOWED"}

IsAllowedStatus(status) == status = "[ok] ALLOWED"

EmptySummary(ns) ==
    [namespace |-> ns, error |-> "No flow logs found for namespace: " \o ns,
     totalFlows |-> 0, totalLogEntries |-> 0, flows |-> <<>>]

BuildSummaryDocument(ns, logs, fm) ==
    LET flows == ProjectFlows(fm)
        sortedFlows == SortByStartTime(MapValues(fm))
        earliestTime == IF Len(sortedFlows) > 0 THEN sortedFlows[1].startTime ELSE NoValue
        latestTime == IF Len(sortedFlows) > 0 THEN sortedFlows[Len(sortedFlows)].endTime ELSE NoValue
        blockedFlows == SelectSeq(flows, LAMBDA f : IsBlockedStatus(f.status))
        allowedFlows == SelectSeq(flows, LAMBDA f : IsAllowedStatus(f.status))
        allPolicies == FlatDetails(flows)
    IN [namespace |-> ns,
        analysis |-> [totalUniqueFlows |-> Len(fm),
                      totalLogEntries |-> Len(logs),
                      timeWindow |-> [start |-> earliestTime, end |-> latestTime,
                                      duration |-> IF earliestTime # NoValue /\ latestTime # NoValue
                                                   THEN ParseTime(latestTime) - ParseTime(earliestTime)
                                                   ELSE NoValue]],
        statistics |-> [flows |-> [total |-> Len(flows), allowed |-> Len(allowedFlows),
                                   blocked |-> Len(blockedFlows)],
                        traffic |-> [totalPackets |-> SumSeq([i \in DOMAIN flows |-> flows[i].traffic.packets.total]),
                                     totalBytes |-> SumSeq([i \in DOMAIN flows |-> flows[i].traffic.bytes.total])],
                        policies |-> [totalPolicyApplications |-> Len(allPolicies),
                                      uniquePolicies |-> Cardinality({PolicyName(allPolicies[i]) : i \in DOMAIN allPolicies}),
                                      uniquePolicyNames |-> {PolicyName(allPolicies[i]) : i \in DOMAIN allPolicies},
                                      tiers |-> {allPolicies[i].tier : i \in DOMAIN allPolicies} \ {""},
                                      kinds |-> {allPolicies[i].kind : i \in DOMAIN allPolicies} \ {""}]],
        flows |-> flows,
        securityAlerts |-> IF Len(blockedFlows) > 0
                           THEN [message |-> "[alert] " \o ToString(Len(blockedFlows))
                                             \o " blocked flow(s) detected - immediate attention required!",
                                 blockedFlows |-> [i \in DOMAIN blockedFlows |->
                                     blockedFlows[i].source.name \o " -> " \o blockedFlows[i].destination.name
                                     \o ":" \o ToString(blockedFlows[i].connection.port)]]
                           ELSE NoValue]

-----------------------------------------------------------------------------
(* getNamespaceFlowSummary: the call *)

Init ==
    /\ namespace \in Namespaces
    /\ allLogs \in SeqsUpTo(LogUniverse, MaxLogs)
    /\ pc = "start"
    /\ namespaceLogs = <<>>
    /\ idx = 0
    /\ flowMap = <<>>
    /\ contributors = <<>>
    /\ result = NoValue
    /\ thrown = NoValue
    /\ blockedLogs = <<>>
    /\ tasks = <<>>
    /\ completionOrder = <<>>
    /\ PoliciesIdle
    /\ ServerIdle
    /\ LabelsIdle
    /\ ForwardIdle
    /\ ConnectIdle

\* getFlowLogs rejects: connection refused, or any other request failure
GetFlowLogsFails ==
    /\ pc = "start"
    /\ \E message \in {"Cannot connect to Calico Whisker. Please ensure port-forward is running.",
                       "Failed to fetch flow logs: timeout of 10000ms exceeded"} :
          thrown' = "Failed to generate flow summary: " \o message
    /\ pc' = "threw"
    /\ UNCHANGED <<namespace, allLogs, namespaceLogs, idx, flowMap, contributors, result, analyzeVars, policyVars, serverVars, labelVars, forwardVars, connectVars>>

\* faulty variant: no early return on an empty match
FilterNamespaceLogs_NoEmptyCheck ==
    /\ pc = "start"
    /\ namespaceLogs' = FilterSeq(allLogs, namespace)
    /\ result' = result
    /\ pc' = "aggregate"
    /\ idx' = 1
    /\ UNCHANGED <<namespace, allLogs, flowMap, contributors, thrown, analyzeVars, policyVars, serverVars, labelVars, forwardVars, connectVars>>

\* getFlowLogs resolves; the records are filtered to the namespace
FilterNamespaceLogs ==
    /\ pc = "start"
    /\ namespaceLogs' = FilterSeq(allLogs, namespace)
    /\ IF Len(namespaceLogs') = 0
       THEN /\ result' = EmptySummary(namespace)
            /\ pc' = "done"
            /\ idx' = idx
       ELSE /\ result' = result
            /\ pc' = "aggregate"
            /\ idx' = 1
    /\ UNCHANGED <<namespace, allLogs, flowMap, contributors, thrown, analyzeVars, policyVars, serverVars, labelVars, forwardVars, connectVars>>

\* one iteration of the forEach over namespaceLogs
AggregateStep ==
    /\ pc = "aggregate"
    /\ idx <= Len(namespaceLogs)
    /\ LET log == namespaceLogs[idx]
           key == FlowKey(log)
       IN /\ flowMap' = AggregateLog(flowMap, log)
          /\ contributors' = IF HasKey(flowMap, key)
                             THEN [contributors EXCEPT ![IndexOfKey(flowMap, key)] = @ \cup {idx}]
                             ELSE Append(contributors, {idx})
    /\ idx' = idx + 1
    /\ UNCHANGED <<namespace, allLogs, pc, namespaceLogs, result, thrown, analyzeVars, policyVars, serverVars, labelVars, forwardVars, connectVars>>

\* after the loop: sort, project, statistics, JSON.stringify
BuildSummary ==
    /\ pc = "aggregate"
    /\ idx > Len(namespaceLogs)
    /\ result' = BuildSummaryDocument(namespace, namespaceLogs, flowMap)
    /\ pc' = "done"
    /\ UNCHANGED <<namespace, allLogs, namespaceLogs, idx, flowMap, contributors, thrown, analyzeVars, policyVars, serverVars, labelVars, forwardVars, connectVars>>

Next == GetFlowLogsFails \/ FilterNamespaceLogs \/ AggregateStep \/ BuildSummary

Spec == Init /\ [][Next]_vars

-----------------------------------------------------------------------------
(* analyzeBlockedFlows: input universe *)

MaxAnalyzeLogs == 2

TriggerNP == [kind |-> "NetworkPolicy", name |-> "deny-all", namespace |-> "a", tier |-> "default",
              action |-> "Deny", policy_index |-> 0, rule_index |-> 0, trigger |-> NoTrigger]
TriggerGNP == [kind |-> "GlobalNetworkPolicy", name |-> "global-deny", namespace |-> "", tier |-> "security",
               action |-> "Deny", policy_index |-> 0, rule_index |-> 1, trigger |-> NoTrigger]
TriggerStaged == [kind |-> "StagedNetworkPolicy", name |-> "staged-deny", namespace |-> "a", tier |-> "default",
                  action |-> "Deny", policy_index |-> 2, rule_index |-> 0, trigger |-> NoTrigger]
\* a trigger whose kind is missing
TriggerNoKind == [kind |-> NoValue, name |-> "profile-deny", namespace |-> "a", tier |-> "default",
                  action |-> "Deny", policy_index |-> 3, rule_index |-> 0, trigger |-> NoTrigger]

Hit(name, action, trigger) ==
    [kind |-> "NetworkPolicy", name |-> name, namespace |-> "a", tier |-> "default",
     action |-> action, policy_index |-> 0, rule_index |-> 0, trigger |-> trigger]

BlockedLog(action, e, port, pending, enforced) ==
    [start_time |-> IF port = 443 THEN T15 ELSE T1, end_time |-> IF port = 443 THEN T25 ELSE T2,
     action |-> action,
     source_name |-> e[1], source_namespace |-> e[2], dest_name |-> e[3], dest_namespace |-> e[4],
     protocol |-> "tcp", dest_port |-> port, reporter |-> "Dst",
     policies |-> [enforced |-> enforced, pending |-> pending],
     packets_in |-> 0, packets_out |-> port, bytes_in |-> 0, bytes_out |-> 60 * port]

AnalyzeUniverse ==
    { \* allowed traffic
      BlockedLog("Allow", <<"web", "a", "db", "b">>, 8080, <<Hit("p1", "Deny", Trigger(TriggerNP))>>, <<>>),
      \* denied by an explicit pending deny
      BlockedLog("Deny", <<"web", "a", "db", "b">>, 443, <<Hit("p1", "Deny", Trigger(TriggerNP))>>, <<>>),
      \* denied at the end of a tier and by a pending deny whose trigger has no
      \* kind; an enforced deny without trigger
      BlockedLog("Deny", <<"web", "a", "db", "a">>, 80,
                 <<Hit("p6", "Pass", Trigger(TriggerGNP)), Hit("p8", "Deny", Trigger(TriggerNoKind))>>,
                 <<Hit("p7", "Deny", NoTrigger)>>),
      \* denied: a hit without trigger and a staged trigger pending, an enforced
      \* allow and the same staged trigger enforced
      BlockedLog("Deny", <<"job", "b", "db", "a">>, 5432,
                 <<Hit("p3", "Allow", NoTrigger), Hit("p2", "Pass", Trigger(TriggerStaged))>>,
                 <<Hit("p4", "Allow", Trigger(TriggerNP)), Hit("p5", "Deny", Trigger(TriggerStaged))>>),
      \* denied, outside namespace "a", no policy hits
      BlockedLog("Deny", <<"job", "b", "db", "b">>, 53, <<>>, <<>>) }

\* analyzeBlockedFlows(namespace?): the namespace may be left out
AnalyzeNamespaces == {NoValue, "a"}

-----------------------------------------------------------------------------
(* retrievePolicyDetails *)

SupportedKinds == {"CalicoNetworkPolicy", "NetworkPolicy", "GlobalNetworkPolicy"}

ResourceType(kind) ==
    IF kind = "CalicoNetworkPolicy" THEN "caliconetworkpolicy"
    ELSE IF kind = "NetworkPolicy" THEN "networkpolicy"
    ELSE IF kind = "GlobalNetworkPolicy" THEN "globalnetworkpolicy"
    ELSE ""

\* the arguments of the kubectl call
KubectlArgs(policyName, policyNamespace, policyKind) ==
    <<"get", ResourceType(policyKind), policyName, "-o", "yaml">>
    \o (IF policyNamespace # NoValue /\ policyNamespace # "" /\ policyKind # "GlobalNetworkPolicy"
        THEN <<"-n", policyNamespace>> ELSE <<>>)

\* what kubectl prints for the call when it exits with code 0
Stdout(args) == "kind: " \o args[2] \o " name: " \o args[3]

\* How a lookup can go.  An unsupported kind resolves null without a kubectl
\* process.  Otherwise spawn either throws synchronously (E2BIG, ENOMEM: the
\* executor throws and the promise is rejected) or the process closes with
\* code 0, closes with another code, emits 'error', or is killed by the
\* 10 second timer.
Outcomes(policyKind) ==
    IF policyKind \in SupportedKinds
    THEN {"exit0", "exitNonZero", "errorEvent", "timeout", "spawnThrows"}
    ELSE {"unsupportedKind"}

\* faulty variant: kubectl is spawned before the kind is looked at
Spawns_BeforeKindCheck(policyName, policyNamespace, policyKind) ==
    <<KubectlArgs(policyName, policyNamespace, policyKind)>>

\* the kubectl processes one call of retrievePolicyDetails spawns, by their
\* argument lists: none after the default branch of the switch, else one
Spawns(policyName, policyNamespace, policyKind) ==
    IF policyKind \notin SupportedKinds THEN <<>>
    ELSE <<KubectlArgs(policyName, policyNamespace, policyKind)>>

\* faulty variant: no 10 second timer, a hanging kubectl leaves the promise pending
RetrievePolicyDetails_NoTimeout(policyName, policyNamespace, policyKind, outcome) ==
    IF policyKind \notin SupportedKinds THEN [settled |-> "resolved", value |-> NoValue]
    ELSE IF outcome = "spawnThrows" THEN [settled |-> "rejected", message |-> "spawn E2BIG"]
    ELSE IF outcome = "exit0"
         THEN [settled |-> "resolved", value |-> Stdout(KubectlArgs(policyName, policyNamespace, policyKind))]
    ELSE IF outcome = "timeout" THEN [settled |-> "pending"]
    ELSE [settled |-> "resolved", value |-> NoValue]

\* faulty variant: the close handler resolves stdout whatever the exit code
RetrievePolicyDetails_IgnoresExitCode(policyName, policyNamespace, policyKind, outcome) ==
    IF policyKind \notin SupportedKinds THEN [settled |-> "resolved", value |-> NoValue]
    ELSE IF outcome = "spawnThrows" THEN [settled |-> "rejected", message |-> "spawn E2BIG"]
    ELSE IF outcome \in {"exit0", "exitNonZero"}
         THEN [settled |-> "resolved", value |-> Stdout(KubectlArgs(policyName, policyNamespace, policyKind))]
    ELSE [settled |-> "resolved", value |-> NoValue]

\* the promise retrievePolicyDetails returns, once settled
RetrievePolicyDetails(policyName, policyNamespace, policyKind, outcome) ==
    IF policyKind \notin SupportedKinds THEN [settled |-> "resolved", value |-> NoValue]
    ELSE IF outcome = "spawnThrows" THEN [settled |-> "rejected", message |-> "spawn E2BIG"]
    ELSE IF outcome = "exit0"
         THEN [settled |-> "resolved", value |-> Stdout(KubectlArgs(policyName, policyNamespace, policyKind))]
    ELSE [settled |-> "resolved", value |-> NoValue]

-----------------------------------------------------------------------------
(* analyzeBlockedFlows *)

\* pendingPolicy.trigger && pendingPolicy.trigger.name
HasTrigger(hit) == hit.trigger # NoTrigger /\ hit.trigger[1].name # ""

\* faulty variant: the enforced pass takes every hit with a trigger
RECURSIVE SelectHits_AnyEnforcedHit(_, _)
SelectHits_AnyEnforcedHit(hits, pass) ==
    IF hits = <<>> THEN <<>>
    ELSE (IF HasTrigger(Head(hits)) THEN <<[pass |-> pass, hit |-> Head(hits)]>> ELSE <<>>)
         \o SelectHits_AnyEnforcedHit(Tail(hits), pass)

RECURSIVE SelectHits(_, _)
SelectHits(hits, pass) ==
    IF hits = <<>> THEN <<>>
    ELSE LET h == Head(hits)
             selected == IF pass = "pending" THEN HasTrigger(h)
                         ELSE h.action = "Deny" /\ HasTrigger(h)
         IN (IF selected THEN <<[pass |-> pass, hit |-> h]>> ELSE <<>>) \o SelectHits(Tail(hits), pass)

\* the lookups the callback awaits for one record, in program order: the
\* pending loop, then the enforced loop
Lookups(log) == SelectHits(log.policies.pending, "pending") \o SelectHits(log.policies.enforced, "enforced")

\* faulty variant: every pending finding is called an explicit deny
BlockingReason_AlwaysExplicit(lookup) ==
    IF lookup.pass = "enforced" THEN "Enforced deny rule" ELSE "Explicit deny rule"

BlockingReason(lookup) ==
    IF lookup.pass = "enforced" THEN "Enforced deny rule"
    ELSE IF lookup.hit.action = "Deny" THEN "Explicit deny rule"
    ELSE "End of tier default deny"

\* the entry pushed after the await: try branch or catch branch
BlockingPolicy(lookup, outcome) ==
    LET t == lookup.hit.trigger[1]
        details == RetrievePolicyDetails(t.name, t.namespace, t.kind, outcome)
    IN IF details.settled = "resolved"
       THEN [triggerPolicy |-> t, policyYaml |-> details.value, blockingReason |-> BlockingReason(lookup)]
       ELSE [triggerPolicy |-> t, policyYaml |-> NoValue,
             error |-> "Failed to retrieve policy: " \o details.message,
             blockingReason |-> BlockingReason(lookup)]

Returned(task, log) == Len(task.blockingPolicies) = Len(Lookups(log))

\* the promise the callback awaits: retrievePolicyDetails for the lookup
AwaitedPromise(lookup, outcome) ==
    LET t == lookup.hit.trigger[1] IN RetrievePolicyDetails(t.name, t.namespace, t.kind, outcome)

\* the callback reaches the await of lookup number k of its record: the call
\* of retrievePolicyDetails runs (spawning kubectl or not) and how the
\* process will go is fixed from here on
CallLookup(task, log, k, outcome) ==
    LET t == Lookups(log)[k].hit.trigger[1]
    IN [task EXCEPT !.inflight = outcome,
                    !.spawned = Append(@, Spawns(t.name, t.namespace, t.kind))]

\* the states a callback can be in after running up to the await of lookup
\* number k, or to its return when the record has no such lookup
RunToAwait(task, log, k) ==
    IF k > Len(Lookups(log)) THEN {[task EXCEPT !.inflight = NoValue]}
    ELSE {CallLookup(task, log, k, outcome) : outcome \in Outcomes(Lookups(log)[k].hit.trigger[1].kind)}

NewTask == [blockingPolicies |-> <<>>, outcomes |-> <<>>, inflight |-> NoValue, spawned |-> <<>>]

\* the value the async callback returns for one record
AnalysisResult(log, blockingPolicies) ==
    [flow |-> [source |-> log.source_name \o " (" \o log.source_namespace \o ")",
               destination |-> log.dest_name \o " (" \o log.dest_namespace \o ")",
               protocol |-> log.protocol, port |-> log.dest_port, action |-> log.action,
               reporter |-> log.reporter,
               timeRange |-> log.start_time \o <<" to ">> \o log.end_time],
     traffic |-> [packetsIn |-> log.packets_in, packetsOut |-> log.packets_out,
                  bytesIn |-> log.bytes_in, bytesOut |-> log.bytes_out],
     blockingPolicies |-> blockingPolicies,
     analysis |-> [totalBlockingPolicies |-> Len(blockingPolicies),
                   recommendation |-> IF Len(blockingPolicies) > 0
                                      THEN "Review the identified policies"
                                      ELSE "No specific blocking policies identified"]]

\* faulty variant: the results are collected in the order in which the callbacks returned
PromiseAll_CompletionOrder(values, order) == [i \in DOMAIN values |-> values[order[i]]]

\* Promise.all: the values in the order of the promises, whatever the order
\* in which they were fulfilled
PromiseAll(values, order) == values

RECURSIVE SelectDeny(_, _)
SelectDeny(logs, ns) ==
    IF logs = <<>> THEN <<>>
    ELSE LET l == Head(logs)
             keep == l.action = "Deny" /\ (ns = NoValue \/ ns = "" \/ TouchesNamespace(l, ns))
         IN (IF keep THEN <<l>> ELSE <<>>) \o SelectDeny(Tail(logs), ns)

\* faulty variant: the label without the port
ConnectionLabel_NoPort(log) == log.source_name \o "->" \o log.dest_name

ConnectionLabel(log) == log.source_name \o "->" \o log.dest_name \o ":" \o ToString(log.dest_port)

MinOf(S) == CHOOSE x \in S : \A y \in S : x <= y
MaxOf(S) == CHOOSE x \in S : \A y \in S : x >= y

\* faulty variant: a bare empty list
NoBlockedFlows_BareList(ns) == <<>>

NoBlockedFlows(ns) ==
    [namespace |-> IF ns = NoValue \/ ns = "" THEN "all" ELSE ns,
     message |-> "No blocked flows found",
     blockedFlows |-> <<>>]

BuildAnalysisDocument(ns, logs, analysisResults) ==
    [namespace |-> IF ns = NoValue \/ ns = "" THEN "all" ELSE ns,
     analysis |-> [totalBlockedFlows |-> Len(logs),
                   uniqueBlockedConnections |-> Cardinality({ConnectionLabel(logs[i]) : i \in DOMAIN logs}),
                   timeWindow |-> [start |-> MinOf({ParseTime(logs[i].start_time) : i \in DOMAIN logs}),
                                   end |-> MaxOf({ParseTime(logs[i].end_time) : i \in DOMAIN logs})]],
     blockedFlows |-> analysisResults,
     securityInsights |-> [message |-> "[alert] " \o ToString(Len(logs)) \o " blocked flow(s) detected"]]

InitAnalyze ==
    /\ namespace \in AnalyzeNamespaces
    /\ allLogs \in SeqsUpTo(AnalyzeUniverse, MaxAnalyzeLogs)
    /\ pc = "start"
    /\ namespaceLogs = <<>>
    /\ idx = 0
    /\ flowMap = <<>>
    /\ contributors = <<>>
    /\ result = NoValue
    /\ thrown = NoValue
    /\ blockedLogs = <<>>
    /\ tasks = <<>>
    /\ completionOrder = <<>>
    /\ PoliciesIdle
    /\ ServerIdle
    /\ LabelsIdle
    /\ ForwardIdle
    /\ ConnectIdle

\* getFlowLogs rejects
AnalyzeFetchFails ==
    /\ pc = "start"
    /\ \E message \in {"Cannot connect to Calico Whisker. Please ensure port-forward is running.",
                       "Failed to fetch flow logs: timeout of 10000ms exceeded"} :
          thrown' = "Failed to analyze blocked flows: " \o message
    /\ pc' = "threw"
    /\ UNCHANGED <<namespace, allLogs, result, summaryVars, analyzeVars, policyVars, serverVars, labelVars, forwardVars, connectVars>>

\* getFlowLogs resolves; the Deny records are selected and one callback per
\* record is started: each runs up to its first await, or returns at once
\* when the record has no lookup
SelectAndFanOut ==
    /\ pc = "start"
    /\ blockedLogs' = SelectDeny(allLogs, namespace)
    /\ IF Len(blockedLogs') = 0
       THEN /\ result' = NoBlockedFlows(namespace)
            /\ pc' = "done"
            /\ UNCHANGED <<tasks, completionOrder>>
       ELSE /\ result' = result
            /\ pc' = "lookups"
            /\ tasks' \in {t \in [DOMAIN blockedLogs' -> UNION {RunToAwait(NewTask, blockedLogs'[i], 1) : i \in DOMAIN blockedLogs'}] :
                              \A i \in DOMAIN blockedLogs' : t[i] \in RunToAwait(NewTask, blockedLogs'[i], 1)}
            /\ completionOrder' = SelectSeq([i \in DOMAIN blockedLogs' |-> i],
                                            LAMBDA i : Lookups(blockedLogs'[i]) = <<>>)
    /\ UNCHANGED <<namespace, allLogs, thrown, summaryVars, policyVars, serverVars, labelVars, forwardVars, connectVars>>

\* the lookup callback i awaits settles; the callback pushes its entry and
\* runs on to its next await or to its return
LookupSettles(i) ==
    /\ pc = "lookups"
    /\ i \in DOMAIN tasks
    /\ ~Returned(tasks[i], blockedLogs[i])
    /\ LET k == Len(tasks[i].blockingPolicies) + 1
           lookup == Lookups(blockedLogs[i])[k]
           outcome == tasks[i].inflight
           pushed == [tasks[i] EXCEPT !.blockingPolicies = Append(@, BlockingPolicy(lookup, outcome)),
                                      !.outcomes = Append(@, outcome)]
       IN /\ AwaitedPromise(lookup, outcome).settled \in {"resolved", "rejected"}
          /\ \E task \in RunToAwait(pushed, blockedLogs[i], k + 1) : tasks' = [tasks EXCEPT ![i] = task]
          /\ completionOrder' = IF Returned(tasks'[i], blockedLogs[i])
                                THEN Append(completionOrder, i) ELSE completionOrder
    /\ UNCHANGED <<namespace, allLogs, pc, result, thrown, blockedLogs, summaryVars, policyVars, serverVars, labelVars, forwardVars, connectVars>>

\* every callback has returned: Promise.all is fulfilled and the document is built
BuildAnalysis ==
    /\ pc = "lookups"
    /\ \A i \in DOMAIN tasks : Returned(tasks[i], blockedLogs[i])
    /\ LET values == [i \in DOMAIN tasks |-> AnalysisResult(blockedLogs[i], tasks[i].blockingPolicies)]
       IN result' = BuildAnalysisDocument(namespace, blockedLogs, PromiseAll(values, completionOrder))
    /\ pc' = "done"
    /\ UNCHANGED <<namespace, allLogs, thrown, blockedLogs, tasks, completionOrder, summaryVars, policyVars, serverVars, labelVars, forwardVars, connectVars>>

NextAnalyze ==
    \/ AnalyzeFetchFails
    \/ SelectAndFanOut
    \/ \E i \in DOMAIN tasks : LookupSettles(i)
    \/ BuildAnalysis

SpecAnalyze == InitAnalyze /\ [][NextAnalyze]_vars

\* the fetched records that are denied and have a lookup that runs kubectl
LookupUniverse ==
    {log \in AnalyzeUniverse :
        /\ log.action = "Deny"
        /\ \E k \in DOMAIN Lookups(log) : Lookups(log)[k].hit.trigger[1].kind \in SupportedKinds}

\* a call without namespace over such records
InitLookups ==
    /\ namespace = NoValue
    /\ allLogs \in SeqsUpTo(LookupUniverse, MaxAnalyzeLogs)
    /\ pc = "start"
    /\ namespaceLogs = <<>>
    /\ idx = 0
    /\ flowMap = <<>>
    /\ contributors = <<>>
    /\ result = NoValue
    /\ thrown = NoValue
    /\ blockedLogs = <<>>
    /\ tasks = <<>>
    /\ completionOrder = <<>>
    /\ PoliciesIdle
    /\ ServerIdle
    /\ LabelsIdle
    /\ ForwardIdle
    /\ ConnectIdle

\* The event loop runs the continuation of every settled promise: the
\* callback of each record resumes once the lookup it awaits has settled, and
\* analyzeBlockedFlows resumes once Promise.all is fulfilled.
FairSpecAnalyze ==
    /\ InitLookups
    /\ [][NextAnalyze]_vars
    /\ \A i \in 1..MaxAnalyzeLogs : WF_vars(LookupSettles(i))
    /\ WF_vars(BuildAnalysis)

-----------------------------------------------------------------------------
(* log-filter.js: JavaScript strings as sequences of characters *)

\* null and undefined, as values that are no string and no number
JsNull == <<"null">>
JsUndefined == <<"undefined">>
NaN == <<"NaN">>
Num(n) == <<"number", n>>
IsNum(x) == Len(x) = 2 /\ x[1] = "number"

DigitChars == <<"0", "1", "2", "3", "4", "5", "6", "7", "8", "9">>
IsDigitChar(c) == \E d \in DOMAIN DigitChars : DigitChars[d] = c
DigitValue(c) == (CHOOSE d \in DOMAIN DigitChars : DigitChars[d] = c) - 1

RECURSIVE NumberToString(_)
NumberToString(n) ==
    IF n < 10 THEN <<DigitChars[n + 1]>> ELSE NumberToString(n \div 10) \o <<DigitChars[(n % 10) + 1]>>

\* `${x}` in a template literal
TemplateString(x) ==
    IF x = JsNull THEN <<"n", "u", "l", "l">>
    ELSE IF x = JsUndefined THEN <<"u", "n", "d", "e", "f", "i", "n", "e", "d">>
    ELSE IF IsNum(x) THEN NumberToString(x[2])
    ELSE x

\* parseInt(s): the leading decimal digits, NaN when there is none
RECURSIVE ParseIntFrom(_, _, _)
ParseIntFrom(s, acc, any) ==
    IF s # <<>> /\ IsDigitChar(Head(s)) THEN ParseIntFrom(Tail(s), acc * 10 + DigitValue(Head(s)), TRUE)
    ELSE IF any THEN Num(acc) ELSE NaN

ParseInt(s) == ParseIntFrom(s, 0, FALSE)

\* s.split(sep) for a one-character separator
RECURSIVE Split(_, _)
Split(s, sep) ==
    IF \A i \in DOMAIN s : s[i] # sep THEN <<s>>
    ELSE LET first == CHOOSE i \in DOMAIN s : s[i] = sep /\ \A j \in 1..(i - 1) : s[j] # sep
         IN <<SubSeq(s, 1, first - 1)>> \o Split(SubSeq(s, first + 1, Len(s)), sep)

RECURSIVE Trim(_)
Trim(s) ==
    IF s = <<>> THEN s
    ELSE IF Head(s) = " " THEN Trim(Tail(s))
    ELSE IF s[Len(s)] = " " THEN Trim(SubSeq(s, 1, Len(s) - 1))
    ELSE s

UpperOf == ("t" :> "T") @@ ("c" :> "C") @@ ("p" :> "P") @@ ("u" :> "U") @@ ("d" :> "D")
           @@ ("i" :> "I") @@ ("m" :> "M")
LowerOf == ("W" :> "w") @@ ("E" :> "e") @@ ("B" :> "b")

ToUpperCase(s) == [i \in DOMAIN s |-> IF s[i] \in DOMAIN UpperOf THEN UpperOf[s[i]] ELSE s[i]]
ToLowerCase(s) == [i \in DOMAIN s |-> IF s[i] \in DOMAIN LowerOf THEN LowerOf[s[i]] ELSE s[i]]

LowerAlnum == {"a", "b", "c", "d", "e", "i", "j", "k", "o", "p", "s", "t", "w", "x"} \cup Range(DigitChars)

\* s.replace(/[^a-z0-9]/g, '-')
ReplaceNonAlnum(s) == [i \in DOMAIN s |-> IF s[i] \in LowerAlnum THEN s[i] ELSE "-"]

\* a value is truthy: not null, not undefined, not the empty string
Truthy(x) == x # JsNull /\ x # JsUndefined /\ x # <<>>

-----------------------------------------------------------------------------
(* extractLabelValue *)

\* faulty variant: the parts are not trimmed
PairParts_NoTrim(pair) == Split(pair, "=")

\* the trimmed parts of one pair around '='
PairParts(pair) == LET parts == Split(pair, "=") IN [i \in DOMAIN parts |-> Trim(parts[i])]

RECURSIVE FirstMatch(_, _)
FirstMatch(labelPairs, key) ==
    IF labelPairs = <<>> THEN JsNull
    ELSE LET parts == PairParts(Head(labelPairs))
             labelKey == parts[1]
             labelValue == IF Len(parts) >= 2 THEN parts[2] ELSE JsUndefined
         IN IF labelKey = key /\ Truthy(labelValue) THEN labelValue
            ELSE FirstMatch(Tail(labelPairs), key)

ExtractLabelValue(labels, key) ==
    IF ~Truthy(labels) THEN JsNull
    ELSE LET pieces == Split(labels, "|")
         IN FirstMatch([i \in DOMAIN pieces |-> Trim(pieces[i])], key)

-----------------------------------------------------------------------------
(* generateCalicoNetworkPolicies: input universe *)

MaxAggregatedLogs == 2

NsA == <<"a">>
NsB == <<"b">>
AppKey == <<"a", "p", "p">>
AppWeb == <<"a", "p", "p", "=", "W", "e", "b">>
AppDb == <<"a", "p", "p", "=", "d", "b", " ", "|", " ", "t", "=", "x">>
AppApi == <<"a", "p", "p", "=", "a", "p", "i">>
TierOnly == <<"t", "=", "x">>
Tcp == <<"t", "c", "p">>
Icmp == <<"i", "c", "m", "p">>

\* one entry of aggregateLogsForPolicyGeneration's result
AggregatedLog(src, srcNs, srcLabels, dst, dstNs, dstLabels, protocol, port) ==
    [source_name |-> src, source_namespace |-> srcNs, source_labels |-> srcLabels,
     dest_name |-> dst, dest_namespace |-> dstNs, dest_labels |-> dstLabels,
     protocol |-> protocol, dest_port |-> port]

AggregatedUniverse ==
    { \* same namespace, destination labelled, port 80
      AggregatedLog("web", NsA, AppWeb, "db", NsA, AppDb, Tcp, Num(80)),
      \* other namespace, ICMP, port 0
      AggregatedLog("web", NsA, AppWeb, "dns", NsB, TierOnly, Icmp, Num(0)),
      \* same namespace, destination without the label, port null
      AggregatedLog("web", NsA, AppWeb, "cache", NsA, TierOnly, Tcp, JsNull),
      \* other namespace, no destination labels, no dest_port field
      AggregatedLog("web", NsA, AppWeb, "ext", NsB, JsUndefined, Tcp, JsUndefined),
      \* only the destination is in namespace a
      AggregatedLog("api", NsB, AppApi, "web", NsA, AppWeb, Tcp, Num(80)),
      \* the source has no app label
      AggregatedLog("job", NsA, TierOnly, "db", NsA, AppDb, Tcp, Num(80)),
      \* a second workload of namespace a
      AggregatedLog("db", NsA, AppDb, "web", NsA, AppWeb, Tcp, Num(443)) }

\* aggregateLogsForPolicyGeneration returns one entry per key: no entry twice
DistinctSeqsUpTo(S, n) ==
    {s \in SeqsUpTo(S, n) : \A i, j \in DOMAIN s : s[i] = s[j] => i = j}

-----------------------------------------------------------------------------
(* generateCalicoNetworkPolicies *)

\* faulty variant: records touching the namespace on either side are grouped
InSourceNamespace_EitherSide(log, ns) == log.source_namespace = ns \/ log.dest_namespace = ns

\* log.source_namespace === namespace
InSourceNamespace(log, ns) == log.source_namespace = ns

\* Map.get / Map.set on a Map kept as the sequence of its entries, in
\* insertion order
MapHas(map, key) == \E i \in DOMAIN map : map[i].key = key
MapIndex(map, key) == CHOOSE i \in DOMAIN map : map[i].key = key

\* map.get(key).push(item), after map.set(key, []) when the key is new
PushInto(map, key, item) ==
    IF MapHas(map, key)
    THEN [map EXCEPT ![MapIndex(map, key)].value = Append(@, item)]
    ELSE Append(map, [key |-> key, value |-> <<item>>])

\* one iteration of aggregatedLogs.forEach
GroupBySource(groups, log, ns, key) ==
    IF InSourceNamespace(log, ns)
    THEN LET selectorValue == ExtractLabelValue(log.source_labels, key)
         IN IF Truthy(selectorValue) THEN PushInto(groups, TemplateString(selectorValue), log)
            ELSE groups
    ELSE groups

DestKey(flow) ==
    TemplateString(flow.dest_namespace) \o <<"|">> \o TemplateString(flow.protocol)
        \o <<"|">> \o TemplateString(flow.dest_port)

RECURSIVE DestinationGroups(_, _)
DestinationGroups(flows, groups) ==
    IF flows = <<>> THEN groups
    ELSE DestinationGroups(Tail(flows), PushInto(groups, DestKey(Head(flows)), Head(flows)))

\* const [destNamespace, protocol, destPort] = destKey.split('|')
Destructure(destKey) ==
    LET parts == Split(destKey, "|")
    IN [destNamespace |-> parts[1],
        protocol |-> IF Len(parts) >= 2 THEN parts[2] ELSE JsUndefined,
        destPort |-> IF Len(parts) >= 3 THEN parts[3] ELSE JsUndefined]

\* faulty variant: any non-empty port string gets a ports entry
HasPort_AnyNonEmpty(destPort) == Truthy(destPort)

\* destPort && destPort !== 'null' && destPort !== '0'
HasPort(destPort) == Truthy(destPort) /\ destPort # <<"n", "u", "l", "l">> /\ destPort # <<"0">>

Destination(destNamespace, destFlows, ns, key) ==
    IF destNamespace # ns
    THEN [namespaceSelector |-> [matchLabels |-> [name |-> destNamespace]]]
    ELSE LET destSelector == ExtractLabelValue(destFlows[1].dest_labels, key)
         IN IF Truthy(destSelector)
            THEN [selector |-> [matchLabels |-> [key |-> key, value |-> destSelector]]]
            ELSE <<>>

EgressRule(destKey, destFlows, ns, key) ==
    LET d == Destructure(destKey)
        rule == [action |-> "Allow",
                 destination |-> Destination(d.destNamespace, destFlows, ns, key),
                 protocol |-> ToUpperCase(d.protocol)]
    IN IF HasPort(d.destPort)
       THEN [f \in DOMAIN rule \cup {"ports"} |->
                IF f = "ports" THEN <<[protocol |-> ToUpperCase(d.protocol), port |-> ParseInt(d.destPort)]>>
                ELSE rule[f]]
       ELSE rule

DraftPolicyName(selectorValue) ==
    <<"a", "l", "l", "o", "w", "-">> \o ReplaceNonAlnum(ToLowerCase(selectorValue))
        \o <<"-", "e", "g", "r", "e", "s", "s">>

\* one iteration of sourceGroups.forEach: the policy of one source group
Policy(selectorValue, flows, ns, key) ==
    LET destinationGroups == DestinationGroups(flows, <<>>)
    IN [apiVersion |-> "projectcalico.org/v3",
        kind |-> "NetworkPolicy",
        metadata |-> [name |-> DraftPolicyName(selectorValue), namespace |-> ns],
        spec |-> [selector |-> [matchLabels |-> [key |-> key, value |-> selectorValue]],
                  types |-> <<"Egress">>,
                  egress |-> [k \in DOMAIN destinationGroups |->
                                 EgressRule(destinationGroups[k].key, destinationGroups[k].value, ns, key)]]]

InitPolicies ==
    /\ namespace = NsA
    /\ selectorKey = AppKey
    /\ aggregatedLogs \in DistinctSeqsUpTo(AggregatedUniverse, MaxAggregatedLogs)
    /\ pc = "group"
    /\ idx = 1
    /\ sourceGroups = <<>>
    /\ policies = <<>>
    /\ destFlowsOf = <<>>
    /\ allLogs = <<>>
    /\ namespaceLogs = <<>>
    /\ flowMap = <<>>
    /\ contributors = <<>>
    /\ result = NoValue
    /\ thrown = NoValue
    /\ blockedLogs = <<>>
    /\ tasks = <<>>
    /\ completionOrder = <<>>
    /\ ServerIdle
    /\ LabelsIdle
    /\ ForwardIdle
    /\ ConnectIdle

\* aggregatedLogs.forEach, one record
GroupLog ==
    /\ pc = "group"
    /\ idx <= Len(aggregatedLogs)
    /\ sourceGroups' = GroupBySource(sourceGroups, aggregatedLogs[idx], namespace, selectorKey)
    /\ idx' = idx + 1
    /\ UNCHANGED <<namespace, selectorKey, aggregatedLogs, pc, policies, destFlowsOf>>
    /\ UNCHANGED <<allLogs, namespaceLogs, flowMap, contributors, result, thrown, analyzeVars, serverVars, labelVars, forwardVars, connectVars>>

\* the first loop is over: sourceGroups.forEach starts
GroupingDone ==
    /\ pc = "group"
    /\ idx > Len(aggregatedLogs)
    /\ pc' = "policies"
    /\ UNCHANGED <<namespace, selectorKey, aggregatedLogs, idx, sourceGroups, policies, destFlowsOf>>
    /\ UNCHANGED <<allLogs, namespaceLogs, flowMap, contributors, result, thrown, analyzeVars, serverVars, labelVars, forwardVars, connectVars>>

\* sourceGroups.forEach, one group: its policy is pushed
GeneratePolicy ==
    /\ pc = "policies"
    /\ Len(policies) < Len(sourceGroups)
    /\ LET group == sourceGroups[Len(policies) + 1]
           destinationGroups == DestinationGroups(group.value, <<>>)
       IN /\ policies' = Append(policies, Policy(group.key, group.value, namespace, selectorKey))
          /\ destFlowsOf' = Append(destFlowsOf, [k \in DOMAIN destinationGroups |-> destinationGroups[k].value])
    /\ UNCHANGED <<namespace, selectorKey, aggregatedLogs, pc, idx, sourceGroups>>
    /\ UNCHANGED <<allLogs, namespaceLogs, flowMap, contributors, result, thrown, analyzeVars, serverVars, labelVars, forwardVars, connectVars>>

\* return policies
ReturnPolicies ==
    /\ pc = "policies"
    /\ Len(policies) = Len(sourceGroups)
    /\ result' = policies
    /\ pc' = "done"
    /\ UNCHANGED <<namespace, selectorKey, aggregatedLogs, idx, sourceGroups, policies, destFlowsOf>>
    /\ UNCHANGED <<allLogs, namespaceLogs, flowMap, contributors, thrown, analyzeVars, serverVars, labelVars, forwardVars, connectVars>>

NextPolicies == GroupLog \/ GroupingDone \/ GeneratePolicy \/ ReturnPolicies

SpecPolicies == InitPolicies /\ [][NextPolicies]_vars

-----------------------------------------------------------------------------
(* The MCP server: the CallTool request handler and the tool handlers *)

MaxRequests == 2

KnownTools ==
    {"connect_to_cluster", "get_flow_logs", "get_denied_staged_policies", "get_high_traffic_flows",
     "get_namespace_flows", "generate_network_policies", "get_kubeconfig_contexts",
     "get_current_context", "check_kubeconfig", "diagnose_connection",
     "get_namespace_flow_summary", "analyze_blocked_flows"}

\* the tool whose case is commented out, and a name no tool has
UnknownTools == {"get_policy_violations", "no_such_tool"}

\* the arguments object of a request, by the names of the fields it carries
ArgumentFields == {"namespace", "selectorKey", "filter"}

\* request.params of a CallTool request; arguments may be left out
Requests ==
    [name : KnownTools \cup UnknownTools, hasArguments : {TRUE}, arguments : SUBSET ArgumentFields]
    \cup [name : KnownTools \cup UnknownTools, hasArguments : {FALSE}, arguments : {{}}]

\* What stops the handler before its first await: the default branch of the
\* switch, the destructuring of undefined arguments, and the parameter checks
\* the handlers make.
EarlyError(req) ==
    IF req.name \notin KnownTools THEN "Error executing tool: Unknown tool"
    ELSE IF ~req.hasArguments THEN "Error executing tool: Cannot destructure property of undefined"
    ELSE IF req.name = "generate_network_policies" /\ "selectorKey" \notin req.arguments
         THEN "Error: selectorKey is required"
    ELSE IF req.name = "get_namespace_flow_summary" /\ "namespace" \notin req.arguments
         THEN "Error: namespace parameter is required"
    ELSE NoValue

\* the calls a handler awaits, in order, when nothing fails
HandlerCalls(req) ==
    IF req.name = "connect_to_cluster" THEN <<"kubectl", "kubectl", "kubectl">>
    ELSE IF req.name = "get_flow_logs"
         THEN <<"getFlowLogs">> \o (IF "filter" \in req.arguments THEN <<"jq">> ELSE <<>>)
    ELSE IF req.name \in {"get_denied_staged_policies", "get_high_traffic_flows", "get_namespace_flows"}
         THEN <<"getFlowLogs", "jq">>
    ELSE IF req.name \in {"generate_network_policies", "get_namespace_flow_summary"} THEN <<"getFlowLogs">>
    ELSE IF req.name \in {"get_kubeconfig_contexts", "get_current_context", "check_kubeconfig"}
         THEN <<"readKubeconfig">>
    ELSE IF req.name = "diagnose_connection" THEN <<"readKubeconfig", "kubectl", "kubectl">>
    ELSE IF req.name = "analyze_blocked_flows" THEN <<"getFlowLogs", "kubectl">>
    ELSE <<>>

\* How an awaited call can end.  executeJqFilter writes the records to the
\* stdin of jq with no 'error' listener on that stream: when jq has gone
\* before the input is taken (not installed, or a filter it rejects at once
\* and an input larger than the pipe buffer) the write fails with EPIPE and
\* the stream's 'error' event is an uncaught exception.
CallOutcomes(call) ==
    IF call = "jq" THEN {"ok", "fails", "stdinError"} ELSE {"ok", "fails"}

\* failures a handler turns into a field of its result document: the
\* kubeconfig error in check_kubeconfig, the accessibility and service
\* status in diagnose_connection, a failed policy lookup in analyze_blocked_flows
Absorbed(req, call) ==
    \/ req.name = "check_kubeconfig" /\ call = "readKubeconfig"
    \/ req.name = "diagnose_connection" /\ call = "kubectl"
    \/ req.name = "analyze_blocked_flows" /\ call = "kubectl"

\* the text of the catch clause that gets the failure
ErrorText(req, call) ==
    IF req.name = "connect_to_cluster" THEN "Failed to connect to cluster or set up port-forwarding"
    ELSE IF req.name = "get_kubeconfig_contexts" THEN "Error reading kubeconfig"
    ELSE IF req.name = "get_current_context" THEN "Error getting current context"
    ELSE IF req.name = "diagnose_connection" THEN "Error diagnosing connection"
    ELSE IF req.name = "get_namespace_flow_summary" THEN "Error generating flow summary for namespace"
    ELSE IF req.name = "analyze_blocked_flows" THEN "Error analyzing blocked flows"
    ELSE "Error executing tool: " \o call \o " failed"

TextResponse(text) == [content |-> <<[type |-> "text", text |-> text]>>]

InitServer ==
    /\ server = "running"
    /\ served = 0
    /\ request = <<>>
    /\ todo = <<>>
    /\ calls = <<>>
    /\ response = <<>>
    /\ pc = "idle"
    /\ namespace = NoValue
    /\ allLogs = <<>>
    /\ namespaceLogs = <<>>
    /\ idx = 0
    /\ flowMap = <<>>
    /\ contributors = <<>>
    /\ result = NoValue
    /\ thrown = NoValue
    /\ blockedLogs = <<>>
    /\ tasks = <<>>
    /\ completionOrder = <<>>
    /\ PoliciesIdle
    /\ LabelsIdle
    /\ ForwardIdle
    /\ ConnectIdle

\* a CallTool request arrives; the handler runs up to its first await, or
\* to its return when nothing is awaited
ReceiveRequest ==
    /\ server = "running"
    /\ pc = "idle"
    /\ served < MaxRequests
    /\ \E req \in Requests :
          /\ request' = req
          /\ IF EarlyError(req) # NoValue
             THEN /\ todo' = <<>>
                  /\ calls' = <<>>
                  /\ response' = TextResponse(EarlyError(req))
             ELSE /\ todo' = HandlerCalls(req)
                  /\ calls' = <<Head(HandlerCalls(req))>>
                  /\ response' = <<>>
    /\ pc' = "handling"
    /\ UNCHANGED <<server, served>>
    /\ UNCHANGED <<namespace, allLogs, result, thrown, summaryVars, analyzeVars, policyVars, labelVars, forwardVars, connectVars>>

\* the awaited call settles; the handler runs on to its next await, to its
\* return, or into a catch clause
CallSettles ==
    /\ server = "running"
    /\ pc = "handling"
    /\ todo # <<>>
    /\ \E outcome \in CallOutcomes(Head(todo)) \ {"stdinError"} :
          IF outcome = "ok" \/ Absorbed(request, Head(todo))
          THEN /\ todo' = Tail(todo)
               /\ calls' = IF Tail(todo) = <<>> THEN calls ELSE Append(calls, Head(Tail(todo)))
               /\ response' = IF Tail(todo) = <<>> THEN TextResponse("result document") ELSE response
          ELSE /\ todo' = <<>>
               /\ calls' = calls
               /\ response' = TextResponse(ErrorText(request, Head(todo)))
    /\ UNCHANGED <<server, served, request, pc>>
    /\ UNCHANGED <<namespace, allLogs, result, thrown, summaryVars, analyzeVars, policyVars, labelVars, forwardVars, connectVars>>

\* the write to jq's stdin fails: 'error' on a stream without listener
StdinWriteFails ==
    /\ server = "running"
    /\ pc = "handling"
    /\ todo # <<>>
    /\ "stdinError" \in CallOutcomes(Head(todo))
    /\ server' = "terminated"
    /\ pc' = "crashed"
    /\ UNCHANGED <<served, request, todo, calls, response>>
    /\ UNCHANGED <<namespace, allLogs, result, thrown, summaryVars, analyzeVars, policyVars, labelVars, forwardVars, connectVars>>

\* the handler has returned: the response goes out, the server is idle again
SendResponse ==
    /\ server = "running"
    /\ pc = "handling"
    /\ todo = <<>>
    /\ served' = served + 1
    /\ pc' = "idle"
    /\ UNCHANGED <<server, request, todo, calls, response>>
    /\ UNCHANGED <<namespace, allLogs, result, thrown, summaryVars, analyzeVars, policyVars, labelVars, forwardVars, connectVars>>

NextServer == ReceiveRequest \/ CallSettles \/ StdinWriteFails \/ SendResponse

SpecServer == InitServer /\ [][NextServer]_vars

-----------------------------------------------------------------------------
(* extractLabelValue: the call over written label strings *)

MaxPairs == 2

\* "a=x", "a=y", " a = x ", "a=", "a", "b=x", "a=x=y", "ab=x", ""
PairUniverse ==
    { <<"a", "=", "x">>, <<"a", "=", "y">>, <<" ", "a", " ", "=", " ", "x", " ">>,
      <<"a", "=">>, <<"a">>, <<"b", "=", "x">>, <<"a", "=", "x", "=", "y">>,
      <<"a", "b", "=", "x">>, <<>> }

LabelKeys == { <<"a">>, <<"b">> }

\* the pairs written one after the other with a bar between them
RECURSIVE JoinBar(_)
JoinBar(pairs) ==
    IF Len(pairs) = 1 THEN pairs[1] ELSE pairs[1] \o <<"|">> \o JoinBar(Tail(pairs))

\* a record without labels has null, no field or the empty string
InitLabels ==
    /\ pairsWritten \in SeqsUpTo(PairUniverse, MaxPairs)
    /\ labelsArg \in IF pairsWritten = <<>> THEN {JsNull, JsUndefined, <<>>} ELSE {JoinBar(pairsWritten)}
    /\ keyArg \in LabelKeys
    /\ pc = "call"
    /\ namespace = NoValue
    /\ allLogs = <<>>
    /\ namespaceLogs = <<>>
    /\ idx = 0
    /\ flowMap = <<>>
    /\ contributors = <<>>
    /\ result = NoValue
    /\ thrown = NoValue
    /\ blockedLogs = <<>>
    /\ tasks = <<>>
    /\ completionOrder = <<>>
    /\ PoliciesIdle
    /\ ServerIdle
    /\ ForwardIdle
    /\ ConnectIdle

\* extractLabelValue(labels, key) returns
ExtractLabel ==
    /\ pc = "call"
    /\ result' = ExtractLabelValue(labelsArg, keyArg)
    /\ pc' = "done"
    /\ UNCHANGED <<namespace, allLogs, thrown, summaryVars, analyzeVars, policyVars, serverVars,
                   labelVars, forwardVars, connectVars>>

NextLabels == ExtractLabel

SpecLabels == InitLabels /\ [][NextLabels]_vars

-----------------------------------------------------------------------------
(* setupPortForward, stopPortForward and the port-forward child's events *)

MaxSetups == 2

\* the kubeconfigPath argument: a path, or left out
Kubeconfigs == {"k1", "k2"}

\* one spawn('kubectl', args): the command, the --kubeconfig it was given and
\* the connect_to_cluster request it was made for
KubectlRun(command, path, req) == [command |-> command, kubeconfig |-> path, request |-> req]

\* a promise is settled once: later resolve and reject calls change nothing
Settle(promise, outcome) == IF promise = "pending" THEN outcome ELSE promise

\* resolve() under `if (!resolved)`
ResolveOnce(setup) ==
    IF setup.resolved THEN setup
    ELSE [setup EXCEPT !.resolved = TRUE, !.promise = Settle(@, "fulfilled")]

\* reject() under `if (!resolved)`
RejectUnlessResolved(setup) ==
    IF setup.resolved THEN setup ELSE [setup EXCEPT !.promise = Settle(@, "rejected")]

\* isPortForwardRunning(): a child is held and has a pid.  A spawn that fails
\* leaves a child without pid, let go of by its 'error' handler on the next
\* tick: every child the service holds between two events has a pid.
IsPortForwardRunning == portForwardProcess # 0

\* the entry of setupPortForward(kubeconfigPath), up to its first await
CallSetup(path) ==
    IF portForwardProcess # 0
    THEN /\ setups' = Append(setups, [kubeconfig |-> path, step |-> "returned", child |-> 0,
                                      resolved |-> FALSE, promise |-> "fulfilled", timer |-> "none"])
         /\ UNCHANGED <<portForwardProcess, kubeconfigPath, children, kubectlLog>>
    ELSE /\ kubeconfigPath' = IF path # NoValue THEN path ELSE kubeconfigPath
         /\ setups' = Append(setups, [kubeconfig |-> path, step |-> "preflight", child |-> 0,
                                      resolved |-> FALSE, promise |-> "pending", timer |-> "none"])
         /\ kubectlLog' = Append(kubectlLog, KubectlRun("version", kubeconfigPath', connectRequest))
         /\ UNCHANGED <<portForwardProcess, children>>

restVars == <<namespace, allLogs, pc, result, thrown, summaryVars, analyzeVars, policyVars,
              serverVars, labelVars>>

InitForward ==
    /\ pc = "forward"
    /\ namespace = NoValue
    /\ allLogs = <<>>
    /\ namespaceLogs = <<>>
    /\ idx = 0
    /\ flowMap = <<>>
    /\ contributors = <<>>
    /\ result = NoValue
    /\ thrown = NoValue
    /\ blockedLogs = <<>>
    /\ tasks = <<>>
    /\ completionOrder = <<>>
    /\ PoliciesIdle
    /\ ServerIdle
    /\ LabelsIdle
    /\ ForwardIdle
    /\ ConnectIdle

\* setupPortForward(options.kubeconfig) is called, whether or not an earlier
\* call has returned; the option is the same for every call of one process
SetupPortForward ==
    /\ Len(setups) < MaxSetups
    /\ CallSetup("k1")
    /\ UNCHANGED <<restVars, connectVars>>

\* `kubectl version --client` closes or fails
PreflightSettles(s) ==
    /\ s \in DOMAIN setups
    /\ setups[s].step = "preflight"
    /\ \E accessible \in BOOLEAN :
          setups' = [setups EXCEPT ![s] =
                        IF accessible THEN [@ EXCEPT !.step = "cleanup"]
                        ELSE [@ EXCEPT !.step = "failed", !.promise = "rejected"]]
    /\ UNCHANGED <<portForwardProcess, kubeconfigPath, children, kubectlLog, restVars, connectVars>>

\* the children that listen on port 8081
Listening == {c \in DOMAIN children : children[c].state = "live" /\ children[c].reported}

\* the 'close' handler of child c
CloseHandler(held, calls0, c) ==
    [held |-> 0,
     setups |-> [calls0 EXCEPT ![children[c].owner] = RejectUnlessResolved(@)]]

RECURSIVE CloseAll(_, _, _)
CloseAll(held, calls0, cs) ==
    IF cs = {} THEN [held |-> held, setups |-> calls0]
    ELSE LET c == CHOOSE x \in cs : TRUE
             after == CloseHandler(held, calls0, c)
         IN CloseAll(after.held, after.setups, cs \ {c})

\* killExistingPortForwards resolves and the port-forward is spawned.  When
\* lsof lists processes on port 8081 they are killed with -9 and the call
\* waits a second: the children among them have exited and their 'close'
\* events were handled by then.  A spawn that fails emits 'error' on the
\* next tick, before any other event.
CleanupSettles(s) ==
    /\ s \in DOMAIN setups
    /\ setups[s].step = "cleanup"
    /\ \E found \in BOOLEAN, spawned \in BOOLEAN :
          LET killed == IF found THEN Listening ELSE {}
              closed == CloseAll(portForwardProcess, setups, killed)
              child == Len(children) + 1
          IN /\ found => Listening # {}
             /\ kubectlLog' = Append(kubectlLog, KubectlRun("port-forward", kubeconfigPath, connectRequest))
             /\ IF spawned
                THEN /\ children' = Append([c \in DOMAIN children |->
                                               IF c \in killed THEN [children[c] EXCEPT !.state = "closed"]
                                               ELSE children[c]],
                                           [state |-> "live", reported |-> FALSE, stopCalled |-> FALSE,
                                            owner |-> s, kubeconfig |-> kubeconfigPath])
                     /\ portForwardProcess' = child
                     /\ setups' = [closed.setups EXCEPT ![s].step = "spawned", ![s].child = child,
                                                        ![s].timer = "armed"]
                ELSE /\ children' = [c \in DOMAIN children |->
                                        IF c \in killed THEN [children[c] EXCEPT !.state = "closed"]
                                        ELSE children[c]]
                     /\ portForwardProcess' = 0
                     /\ setups' = [closed.setups EXCEPT ![s].step = "spawned", ![s].timer = "armed",
                                                        ![s].promise = Settle(@, "rejected")]
    /\ UNCHANGED <<kubeconfigPath, restVars, connectVars>>

\* the child writes 'Forwarding from ...' and the data handler runs
ChildReports(c) ==
    /\ c \in DOMAIN children
    /\ children[c].state = "live"
    /\ ~children[c].reported
    /\ children' = [children EXCEPT ![c].reported = TRUE]
    /\ setups' = [setups EXCEPT ![children[c].owner] = ResolveOnce(@)]
    /\ UNCHANGED <<portForwardProcess, kubeconfigPath, kubectlLog, restVars, connectVars>>

\* the child process ends: killed, or on its own
ChildExits(c) ==
    /\ c \in DOMAIN children
    /\ children[c].state = "live"
    /\ children' = [children EXCEPT ![c].state = "exited"]
    /\ UNCHANGED <<portForwardProcess, kubeconfigPath, setups, kubectlLog, restVars, connectVars>>

\* the 'close' event of an ended child is handled
ChildCloseEvent(c) ==
    /\ c \in DOMAIN children
    /\ children[c].state = "exited"
    /\ children' = [children EXCEPT ![c].state = "closed"]
    /\ LET after == CloseHandler(portForwardProcess, setups, c)
       IN /\ portForwardProcess' = after.held
          /\ setups' = after.setups
    /\ UNCHANGED <<kubeconfigPath, kubectlLog, restVars, connectVars>>

\* faulty variant: the timer resolves whenever the call has not resolved
TimerAssumesSuccess_NoChildHeld(s) == ~setups[s].resolved

\* `this.portForwardProcess && this.portForwardProcess.pid && !resolved`:
\* every child the service holds when a timer fires has a pid
TimerAssumesSuccess(s) == portForwardProcess # 0 /\ ~setups[s].resolved

\* the 5-second timer of call s fires
TimerFires(s) ==
    /\ s \in DOMAIN setups
    /\ setups[s].timer = "armed"
    /\ setups' = [setups EXCEPT ![s] =
                     [(IF TimerAssumesSuccess(s) THEN ResolveOnce(@) ELSE RejectUnlessResolved(@))
                         EXCEPT !.timer = "fired"]]
    /\ UNCHANGED <<portForwardProcess, kubeconfigPath, children, kubectlLog, restVars, connectVars>>

\* stopPortForward(): the held child is sent SIGTERM and let go of
StopPortForward ==
    /\ portForwardProcess # 0 \/ \E c \in DOMAIN children : ~children[c].stopCalled
    /\ portForwardProcess' = 0
    /\ children' = [c \in DOMAIN children |-> [children[c] EXCEPT !.stopCalled = TRUE]]
    /\ UNCHANGED <<kubeconfigPath, setups, kubectlLog, restVars, connectVars>>

NextForward ==
    \/ SetupPortForward
    \/ \E s \in DOMAIN setups : PreflightSettles(s)
    \/ \E s \in DOMAIN setups : CleanupSettles(s)
    \/ \E c \in DOMAIN children : ChildReports(c)
    \/ \E c \in DOMAIN children : ChildExits(c)
    \/ \E c \in DOMAIN children : ChildCloseEvent(c)
    \/ \E s \in DOMAIN setups : TimerFires(s)
    \/ StopPortForward

SpecForward == InitForward /\ [][NextForward]_vars

-----------------------------------------------------------------------------
(* handleConnectToCluster *)

MaxConnects == 2

\* join(homedir(), '.kube', 'config')
DefaultKubeconfig == "~/.kube/config"

InitConnect ==
    /\ pc = "idle"
    /\ namespace = NoValue
    /\ allLogs = <<>>
    /\ namespaceLogs = <<>>
    /\ idx = 0
    /\ flowMap = <<>>
    /\ contributors = <<>>
    /\ result = NoValue
    /\ thrown = NoValue
    /\ blockedLogs = <<>>
    /\ tasks = <<>>
    /\ completionOrder = <<>>
    /\ PoliciesIdle
    /\ ServerIdle
    /\ LabelsIdle
    /\ ForwardIdle
    /\ ConnectIdle

idleVars == <<namespace, allLogs, result, thrown, summaryVars, analyzeVars, policyVars,
              serverVars, labelVars>>

\* a connect_to_cluster request without a context arrives:
\* KubernetesService.connect stores the path and spawns `kubectl cluster-info`
ReceiveConnect ==
    /\ pc = "idle"
    /\ connectCount < MaxConnects
    /\ \E path \in Kubeconfigs \cup {NoValue} :
          /\ connectRequest' = [number |-> connectCount + 1, kubeconfig |-> path]
          /\ k8sKubeconfigPath' = IF path # NoValue THEN path ELSE DefaultKubeconfig
    /\ connectCount' = connectCount + 1
    /\ kubectlLog' = Append(kubectlLog, KubectlRun("cluster-info", k8sKubeconfigPath', connectRequest'))
    /\ pc' = "verifying"
    /\ UNCHANGED <<portForwardProcess, kubeconfigPath, children, setups, connected, idleVars>>

\* verifyConnection settles; on success checkWhiskerServiceStatus spawns
\* `kubectl get service whisker`
VerifySettles ==
    /\ pc = "verifying"
    /\ \E reachable \in BOOLEAN :
          IF reachable
          THEN /\ kubectlLog' = Append(kubectlLog, KubectlRun("get-service", kubeconfigPath, connectRequest))
               /\ pc' = "checking"
               /\ UNCHANGED connectRequest
          ELSE /\ pc' = "idle"
               /\ connectRequest' = <<>>
               /\ UNCHANGED kubectlLog
    /\ UNCHANGED <<portForwardProcess, kubeconfigPath, children, setups, k8sKubeconfigPath,
                   connectCount, connected, idleVars>>

\* checkWhiskerServiceStatus resolves; when the service is available
\* setupPortForward(kubeconfig) is called
CheckSettles ==
    /\ pc = "checking"
    /\ \E available \in BOOLEAN :
          IF available
          THEN /\ CallSetup(connectRequest.kubeconfig)
               /\ pc' = "forwarding"
               /\ UNCHANGED connectRequest
          ELSE /\ pc' = "idle"
               /\ connectRequest' = <<>>
               /\ UNCHANGED forwardVars
    /\ UNCHANGED <<k8sKubeconfigPath, connectCount, connected, idleVars>>

\* setupPortForward has settled: the handler returns its success or failure text
SetupReturns ==
    /\ pc = "forwarding"
    /\ setups[Len(setups)].promise # "pending"
    /\ connected' = IF setups[Len(setups)].promise = "fulfilled"
                    THEN <<connectRequest.kubeconfig>> ELSE connected
    /\ connectRequest' = <<>>
    /\ pc' = "idle"
    /\ UNCHANGED <<forwardVars, k8sKubeconfigPath, connectCount, idleVars>>

\* between two requests, after a successful connect: analyze_blocked_flows
\* looks a policy up, retrievePolicyDetails spawns `kubectl get <kind> <name>`
PolicyLookup ==
    /\ pc = "idle"
    /\ connected # <<>>
    /\ kubectlLog[Len(kubectlLog)].command # "get-policy"
    /\ kubectlLog' = Append(kubectlLog, KubectlRun("get-policy", kubeconfigPath, connectRequest))
    /\ UNCHANGED <<portForwardProcess, kubeconfigPath, children, setups, connectVars, pc, idleVars>>

NextConnect ==
    \/ ReceiveConnect
    \/ VerifySettles
    \/ CheckSettles
    \/ SetupReturns
    \/ PolicyLookup
    \/ \E s \in DOMAIN setups : PreflightSettles(s)
    \/ \E s \in DOMAIN setups : CleanupSettles(s)
    \/ \E c \in DOMAIN children : ChildReports(c)
    \/ \E c \in DOMAIN children : ChildExits(c)
    \/ \E c \in DOMAIN children : ChildCloseEvent(c)
    \/ \E s \in DOMAIN setups : TimerFires(s)

SpecConnect == InitConnect /\ [][NextConnect]_vars

-----------------------------------------------------------------------------
(* Properties of getNamespaceFlowSummary *)

Perms(n) == {f \in [1..n -> 1..n] : \A i, j \in 1..n : f[i] = f[j] => i = j}

Permuted(s, f) == [i \in 1..Len(s) |-> s[f[i]]]

RECURSIVE SumOver(_, _)
SumOver(S, f) ==
    IF S = {} THEN 0 ELSE LET x == CHOOSE y \in S : TRUE IN f[x] + SumOver(S \ {x}, f)

PacketsIn == [m \in DOMAIN namespaceLogs |-> namespaceLogs[m].packets_in]
PacketsOut == [m \in DOMAIN namespaceLogs |-> namespaceLogs[m].packets_out]
BytesIn == [m \in DOMAIN namespaceLogs |-> namespaceLogs[m].bytes_in]
BytesOut == [m \in DOMAIN namespaceLogs |-> namespaceLogs[m].bytes_out]

CountIn(s, x) == Cardinality({i \in DOMAIN s : s[i] = x})

Processed == UNION Range(contributors)

SameFlow(i, j) == \E k \in DOMAIN contributors : i \in contributors[k] /\ j \in contributors[k]

KeyComponents(log) ==
    <<log.source_name, log.source_namespace, log.dest_name, log.dest_namespace,
      log.protocol, log.dest_port, log.action>>

SameConnection(l1, l2) ==
    /\ l1.source_name = l2.source_name /\ l1.source_namespace = l2.source_namespace
    /\ l1.dest_name = l2.dest_name /\ l1.dest_namespace = l2.dest_namespace
    /\ l1.protocol = l2.protocol /\ l1.dest_port = l2.dest_port

Details(flow) == [i \in DOMAIN flow.enforcedPolicies |-> PolicyDetail(flow.enforcedPolicies[i])]

FlowCore(entry) ==
    [key |-> entry.key,
     packetsIn |-> entry.value.packetsIn, packetsOut |-> entry.value.packetsOut,
     bytesIn |-> entry.value.bytesIn, bytesOut |-> entry.value.bytesOut,
     startTime |-> entry.value.startTime, endTime |-> entry.value.endTime,
     sourceAction |-> entry.value.sourceAction, destAction |-> entry.value.destAction,
     sourcePolicies |-> entry.value.sourcePolicies, destPolicies |-> entry.value.destPolicies]

\* a flow with its hit details as the list the summary prints
FlowWithDetailList(entry) == [core |-> FlowCore(entry), details |-> Details(entry.value)]

\* a flow with its hit details as a multiset
FlowWithDetailBag(entry) ==
    [core |-> FlowCore(entry),
     details |-> LET d == Details(entry.value) IN [x \in Range(d) |-> CountIn(d, x)]]

\* C1 (as claimed): every permutation of the records yields the identical set
\* of flows: same keys, counters, time window, side actions, per-side policy
\* sets and enforced-policy hit details.
C1_OrderIndependentExact ==
    pc = "done" =>
        \A f \in Perms(Len(namespaceLogs)) :
            LET fm == Aggregate(Permuted(namespaceLogs, f))
            IN {FlowWithDetailList(fm[i]) : i \in DOMAIN fm}
               = {FlowWithDetailList(flowMap[i]) : i \in DOMAIN flowMap}

\* C1 (amended): every permutation of the records yields the same set of
\* flows up to the order of each flow's hit details: same keys and, per key,
\* the same counters, time window, side actions, per-side policy sets and the
\* same multiset of enforced-policy hit details.
C1_OrderIndependentUpToDetailOrder ==
    pc = "done" =>
        \A f \in Perms(Len(namespaceLogs)) :
            LET fm == Aggregate(Permuted(namespaceLogs, f))
            IN {FlowWithDetailBag(fm[i]) : i \in DOMAIN fm}
               = {FlowWithDetailBag(flowMap[i]) : i \in DOMAIN flowMap}

\* a finished summary in which one flow merged records of both reporters,
\* whose windows, counters and policy hits differ
C1_Witness ==
    /\ pc = "done"
    /\ \E k \in DOMAIN flowMap :
          /\ Cardinality(contributors[k]) >= 2
          /\ \E i, j \in contributors[k] : namespaceLogs[i].reporter = "Src" /\ namespaceLogs[j].reporter = "Dst"
          /\ Cardinality(Range(flowMap[k].value.enforcedPolicies)) >= 2

\* C2 (as claimed): two records are merged into the same flow if and only if
\* they agree on all seven key components, also when a name or namespace
\* contains '|'.
C2_MergedIffSameComponents ==
    \A i, j \in Processed :
        SameFlow(i, j) <=> KeyComponents(namespaceLogs[i]) = KeyComponents(namespaceLogs[j])

\* C3: an Allow and a Deny record of the same connection are never merged;
\* each lands in its own flow whose counters are the sums over that flow's
\* own records, and summarising just the two yields exactly two flows.
C3_AllowDenyNeverMerged ==
    \A i, j \in Processed :
        LET li == namespaceLogs[i]
            lj == namespaceLogs[j]
        IN (SameConnection(li, lj) /\ li.action = "Allow" /\ lj.action = "Deny") =>
            /\ ~SameFlow(i, j)
            /\ \A k \in DOMAIN flowMap :
                  i \in contributors[k] =>
                      /\ \A m \in contributors[k] : namespaceLogs[m].action = "Allow"
                      /\ flowMap[k].value.packetsIn = SumOver(contributors[k], PacketsIn)
                      /\ flowMap[k].value.bytesIn = SumOver(contributors[k], BytesIn)
            /\ \A k \in DOMAIN flowMap :
                  j \in contributors[k] =>
                      /\ \A m \in contributors[k] : namespaceLogs[m].action = "Deny"
                      /\ flowMap[k].value.packetsIn = SumOver(contributors[k], PacketsIn)
                      /\ flowMap[k].value.bytesIn = SumOver(contributors[k], BytesIn)
            /\ (pc = "done" /\ Len(namespaceLogs) = 2) =>
                  (Len(flowMap) = 2 /\ Len(result.flows) = 2 /\ result.analysis.totalUniqueFlows = 2)

C3_Witness ==
    /\ pc = "done"
    /\ Len(namespaceLogs) = 2
    /\ SameConnection(namespaceLogs[1], namespaceLogs[2])
    /\ namespaceLogs[1].action = "Allow" /\ namespaceLogs[2].action = "Deny"
    /\ Len(result.flows) = 2

\* C4: each counter of a flow is the sum of that counter over the records
\* merged into the flow, and the summary prints these sums.
C4_CountersAreSums ==
    /\ \A k \in DOMAIN flowMap :
          /\ flowMap[k].value.packetsIn = SumOver(contributors[k], PacketsIn)
          /\ flowMap[k].value.packetsOut = SumOver(contributors[k], PacketsOut)
          /\ flowMap[k].value.bytesIn = SumOver(contributors[k], BytesIn)
          /\ flowMap[k].value.bytesOut = SumOver(contributors[k], BytesOut)
    /\ (pc = "done" /\ namespaceLogs # <<>>) =>
          {<<f.traffic.packets.in, f.traffic.packets.out, f.traffic.bytes.in, f.traffic.bytes.out>> :
               f \in Range(result.flows)}
          = {<<SumOver(contributors[k], PacketsIn),
               SumOver(contributors[k], PacketsOut),
               SumOver(contributors[k], BytesIn),
               SumOver(contributors[k], BytesOut)>> : k \in DOMAIN contributors}

\* packetsIn 10 and 5 merged to 15, bytesIn 100 and 50 to 150
C4_Witness ==
    /\ pc = "done"
    /\ \E i \in DOMAIN result.flows :
          /\ result.flows[i].traffic.packets.in = 15
          /\ result.flows[i].traffic.bytes.in = 150

\* C5 (as claimed): a flow's start is the earliest start instant and its end
\* the latest end instant over the records merged into it.
C5_WindowIsMinMaxInstant ==
    \A k \in DOMAIN flowMap :
        /\ ParseTime(flowMap[k].value.startTime)
             = MinOf({ParseTime(namespaceLogs[m].start_time) : m \in contributors[k]})
        /\ ParseTime(flowMap[k].value.endTime)
             = MaxOf({ParseTime(namespaceLogs[m].end_time) : m \in contributors[k]})

\* C6: a side's action is other than "N/A" exactly when a record reported by
\* that side was merged into the flow, and merging a record leaves the action
\* of every side that did not report it as it was.
C6_SideActionFromOwnReporter ==
    [][ /\ \A k \in DOMAIN flowMap' :
              /\ (flowMap'[k].value.sourceAction # "N/A")
                    <=> (\E m \in contributors'[k] : namespaceLogs'[m].reporter = "Src")
              /\ (flowMap'[k].value.destAction # "N/A")
                    <=> (\E m \in contributors'[k] : namespaceLogs'[m].reporter = "Dst")
        /\ (pc = "aggregate" /\ idx <= Len(namespaceLogs)) =>
              \A k \in DOMAIN flowMap :
                  /\ namespaceLogs[idx].reporter # "Src" =>
                        flowMap'[k].value.sourceAction = flowMap[k].value.sourceAction
                  /\ namespaceLogs[idx].reporter # "Dst" =>
                        flowMap'[k].value.destAction = flowMap[k].value.destAction
      ]_vars

\* a flow that merged a source report and a report of neither side: the
\* source action is set, the destination action is still the sentinel
C6_Witness ==
    \E k \in DOMAIN flowMap :
        /\ \E m \in contributors[k] : namespaceLogs[m].reporter = "Src"
        /\ \E m \in contributors[k] : namespaceLogs[m].reporter = "Unknown"
        /\ \A m \in contributors[k] : namespaceLogs[m].reporter # "Dst"
        /\ flowMap[k].value.sourceAction # "N/A"
        /\ flowMap[k].value.destAction = "N/A"

\* C7: in the summary a flow's status is BLOCKED exactly when one of its two
\* side actions is Deny, and ALLOWED otherwise.
C7_BlockedIffSideDeny ==
    (pc = "done" /\ namespaceLogs # <<>>) =>
        \A i \in DOMAIN result.flows :
            LET f == result.flows[i]
                sideDeny == f.source.action = "[alert] Deny" \/ f.destination.action = "[alert] Deny"
            IN /\ sideDeny => f.status = "[alert] BLOCKED"
               /\ ~sideDeny => f.status = "[ok] ALLOWED"

\* a summary with a flow blocked on the destination side only and an allowed flow
C7_Witness ==
    /\ pc = "done"
    /\ namespaceLogs # <<>>
    /\ \E i, j \in DOMAIN result.flows :
          /\ result.flows[i].source.action = "[x] N/A"
          /\ result.flows[i].destination.action = "[alert] Deny"
          /\ result.flows[i].status = "[alert] BLOCKED"
          /\ result.flows[j].status = "[ok] ALLOWED"

NoneTouches ==
    \A i \in DOMAIN allLogs :
        allLogs[i].source_namespace # namespace /\ allLogs[i].dest_namespace # namespace

\* C8: when the fetch succeeded and no fetched record has the namespace on
\* either side, the call returns the "no flow logs found" document with zero
\* counts and no flows; it does not throw.
C8_EmptyMatchDocument ==
    (pc \notin {"start", "threw"} /\ NoneTouches) =>
        /\ pc = "done"
        /\ thrown = NoValue
        /\ DOMAIN result = {"namespace", "error", "totalFlows", "totalLogEntries", "flows"}
        /\ result.namespace = namespace
        /\ result.error = "No flow logs found for namespace: " \o namespace
        /\ result.totalFlows = 0
        /\ result.totalLogEntries = 0
        /\ result.flows = <<>>

\* records were fetched, none of them touches the namespace
C8_Witness ==
    /\ pc = "done"
    /\ allLogs # <<>>
    /\ NoneTouches
    /\ result.totalFlows = 0

-----------------------------------------------------------------------------
(* Properties of analyzeBlockedFlows *)

\* the fetched Deny records, within the namespace when one is given, in fetch order
ExpectedDenied ==
    SelectSeq(allLogs, LAMBDA l : /\ l.action = "Deny"
                                  /\ (namespace = NoValue \/ l.source_namespace = namespace
                                      \/ l.dest_namespace = namespace))

\* C9: blockedFlows has one entry per selected Deny record, entry i describing
\* the i-th such record in fetch order (its endpoints, port, counters and the
\* findings for its own triggers), whatever the order in which the lookups
\* completed.
C9_EntriesAlignedWithRecords ==
    pc = "done" =>
        /\ Len(result.blockedFlows) = Len(ExpectedDenied)
        /\ \A i \in DOMAIN result.blockedFlows :
              LET entry == result.blockedFlows[i]
                  log == ExpectedDenied[i]
              IN /\ entry.flow.source = log.source_name \o " (" \o log.source_namespace \o ")"
                 /\ entry.flow.destination = log.dest_name \o " (" \o log.dest_namespace \o ")"
                 /\ entry.flow.port = log.dest_port
                 /\ entry.flow.action = "Deny"
                 /\ entry.traffic.packetsOut = log.packets_out
                 /\ entry.traffic.bytesOut = log.bytes_out
                 /\ Len(entry.blockingPolicies) = Len(Lookups(log))
                 /\ \A j \in DOMAIN entry.blockingPolicies :
                       entry.blockingPolicies[j].triggerPolicy = Lookups(log)[j].hit.trigger[1]

\* two different denied records, both with lookups, the callback of the
\* second returned before the callback of the first
C9_Witness ==
    /\ pc = "done"
    /\ Len(blockedLogs) = 2
    /\ blockedLogs[1] # blockedLogs[2]
    /\ Lookups(blockedLogs[1]) # <<>>
    /\ Lookups(blockedLogs[2]) # <<>>
    /\ completionOrder = <<2, 1>>
    /\ Len(result.blockedFlows) = 2

FailedOutcomes == {"exitNonZero", "errorEvent", "timeout"}

\* every callback's entries reach the returned document, one per lookup
FullAnalysisReturned ==
    /\ tasks # <<>> => pc \in {"lookups", "done"}
    /\ (pc = "done" /\ blockedLogs # <<>>) =>
          /\ Len(result.blockedFlows) = Len(blockedLogs)
          /\ \A i \in DOMAIN blockedLogs :
                /\ result.blockedFlows[i].blockingPolicies = tasks[i].blockingPolicies
                /\ Len(tasks[i].blockingPolicies) = Len(Lookups(blockedLogs[i]))

\* C10 (as claimed): when a lookup fails (kubectl error, non-zero exit or
\* timeout) the full analysis is still returned and the entry is kept with
\* policyYaml = null together with an error message.
C10_FailedLookupKeptWithError ==
    /\ FullAnalysisReturned
    /\ \A i \in DOMAIN tasks :
          \A j \in DOMAIN tasks[i].outcomes :
              tasks[i].outcomes[j] \in FailedOutcomes =>
                  /\ tasks[i].blockingPolicies[j].policyYaml = NoValue
                  /\ "error" \in DOMAIN tasks[i].blockingPolicies[j]

\* C10 (amended): when a lookup fails the full analysis is still returned and
\* the entry is kept with policyYaml = null; after a kubectl 'error' event, a
\* non-zero exit or the timeout the entry has no error message, and an error
\* message is recorded only when starting kubectl throws.
C10_FailedLookupKeptWithNullYaml ==
    /\ FullAnalysisReturned
    /\ \A i \in DOMAIN tasks :
          \A j \in DOMAIN tasks[i].outcomes :
              LET entry == tasks[i].blockingPolicies[j]
                  lookup == Lookups(blockedLogs[i])[j]
              IN /\ entry.triggerPolicy = lookup.hit.trigger[1]
                 /\ tasks[i].outcomes[j] \in FailedOutcomes =>
                       (entry.policyYaml = NoValue /\ "error" \notin DOMAIN entry)
                 /\ tasks[i].outcomes[j] = "spawnThrows" =>
                       (entry.policyYaml = NoValue /\ "error" \in DOMAIN entry)
                 /\ "error" \in DOMAIN entry => tasks[i].outcomes[j] = "spawnThrows"

\* a returned analysis in which the lookup of one record timed out and the
\* lookup of another record succeeded
C10_Witness ==
    /\ pc = "done"
    /\ Len(blockedLogs) = 2
    /\ \E j \in DOMAIN tasks[1].outcomes :
          /\ tasks[1].outcomes[j] = "timeout"
          /\ result.blockedFlows[1].blockingPolicies[j].policyYaml = NoValue
    /\ \E j \in DOMAIN tasks[2].outcomes :
          /\ tasks[2].outcomes[j] = "exit0"
          /\ result.blockedFlows[2].blockingPolicies[j].policyYaml # NoValue

-----------------------------------------------------------------------------
(* Properties of analyzeBlockedFlows: lookups, findings, the empty Deny set *)

\* the hits the two passes look up, read off the record
PendingWithTrigger(log) == SelectSeq(log.policies.pending, LAMBDA h : h.trigger # NoTrigger)
EnforcedDenyWithTrigger(log) ==
    SelectSeq(log.policies.enforced, LAMBDA h : h.action = "Deny" /\ h.trigger # NoTrigger)

\* the returned document has one entry per denied record and, in it, one
\* finding per lookup of the record
CompleteDocument ==
    /\ pc = "done"
    /\ Len(result.blockedFlows) = Len(ExpectedDenied)
    /\ \A i \in DOMAIN result.blockedFlows :
          Len(result.blockedFlows[i].blockingPolicies)
            = Len(PendingWithTrigger(ExpectedDenied[i])) + Len(EnforcedDenyWithTrigger(ExpectedDenied[i]))

\* C11: once the lookups are started, every awaited lookup settles whatever
\* its kubectl process does (close, 'error', hang until the 10 second timer),
\* no lookup outcome makes analyzeBlockedFlows throw, and the call eventually
\* returns a document with every denied record and every finding.
C11_LookupsSettleAndAnalysisReturns ==
    /\ (pc = "lookups") ~> CompleteDocument
    /\ [][pc = "lookups" => pc' \in {"lookups", "done"}]_vars

\* the lookup of the first record hangs (its timer has not fired yet) while
\* the callback of the second record, which had a lookup of its own, has
\* returned
C11_Witness ==
    /\ pc = "lookups"
    /\ Len(tasks) = 2
    /\ tasks[1].inflight = "timeout"
    /\ tasks[1].blockingPolicies = <<>>
    /\ tasks[2].inflight = NoValue
    /\ tasks[2].blockingPolicies # <<>>

\* C12: in the returned analysis each denied record's findings start with
\* exactly one finding per pending hit that has a trigger, with that trigger,
\* and with the reason "Explicit deny rule" when the pending hit's own action
\* is Deny and "End of tier default deny" otherwise; no other finding has one
\* of these two reasons.
C12_PendingFindingReason ==
    (pc = "done" /\ blockedLogs # <<>>) =>
        \A i \in DOMAIN result.blockedFlows :
            LET entries == result.blockedFlows[i].blockingPolicies
                pend == PendingWithTrigger(ExpectedDenied[i])
            IN /\ Len(entries) >= Len(pend)
               /\ \A k \in DOMAIN entries :
                     IF k <= Len(pend)
                     THEN /\ entries[k].triggerPolicy = pend[k].trigger[1]
                          /\ entries[k].blockingReason = IF pend[k].action = "Deny"
                                                         THEN "Explicit deny rule"
                                                         ELSE "End of tier default deny"
                     ELSE entries[k].blockingReason \notin {"Explicit deny rule", "End of tier default deny"}

\* a returned analysis with a finding for a pending Deny hit and a finding
\* for a pending hit of another action
C12_Witness ==
    /\ pc = "done"
    /\ blockedLogs # <<>>
    /\ \E i, j \in DOMAIN result.blockedFlows :
          /\ \E k \in DOMAIN result.blockedFlows[i].blockingPolicies :
                /\ ExpectedDenied[i].policies.pending[k].action = "Deny"
                /\ result.blockedFlows[i].blockingPolicies[k].blockingReason = "Explicit deny rule"
          /\ \E k \in DOMAIN result.blockedFlows[j].blockingPolicies :
                /\ PendingWithTrigger(ExpectedDenied[j]) # <<>>
                /\ PendingWithTrigger(ExpectedDenied[j])[1].action = "Pass"
                /\ result.blockedFlows[j].blockingPolicies[k].blockingReason = "End of tier default deny"

NoDenyRecord ==
    \A i \in DOMAIN allLogs :
        ~ /\ allLogs[i].action = "Deny"
          /\ \/ namespace = NoValue
             \/ allLogs[i].source_namespace = namespace
             \/ allLogs[i].dest_namespace = namespace

\* C13: when no fetched record is a Deny record (of the namespace, if one is
\* given) the call returns the document {namespace, message: "No blocked
\* flows found", blockedFlows: []}, not a bare list, and no callback runs: no
\* lookup is called and no kubectl is spawned.
C13_NoBlockedFlowsDocument ==
    (pc = "done" /\ NoDenyRecord) =>
        /\ DOMAIN result = {"namespace", "message", "blockedFlows"}
        /\ result.message = "No blocked flows found"
        /\ result.blockedFlows = <<>>
        /\ result.namespace = IF namespace = NoValue THEN "all" ELSE namespace
        /\ tasks = <<>>

\* records were fetched, among them a Deny record of another namespace, and
\* none is a Deny record of the namespace asked for
C13_Witness ==
    /\ pc = "done"
    /\ NoDenyRecord
    /\ namespace = "a"
    /\ \E i \in DOMAIN allLogs : allLogs[i].action = "Deny"
    /\ result.message = "No blocked flows found"

\* C19: in the returned analysis the findings of each denied record are: one
\* per pending hit with a trigger, in list order, then one per enforced hit
\* with action Deny and a trigger, in list order, the latter with the reason
\* "Enforced deny rule"; nothing is de-duplicated.
C19_FindingsPendingThenEnforced ==
    (pc = "done" /\ blockedLogs # <<>>) =>
        \A i \in DOMAIN result.blockedFlows :
            LET entries == result.blockedFlows[i].blockingPolicies
                pend == PendingWithTrigger(ExpectedDenied[i])
                enf == EnforcedDenyWithTrigger(ExpectedDenied[i])
            IN /\ Len(entries) = Len(pend) + Len(enf)
               /\ \A k \in DOMAIN entries :
                     IF k <= Len(pend)
                     THEN entries[k].triggerPolicy = pend[k].trigger[1]
                     ELSE /\ entries[k].triggerPolicy = enf[k - Len(pend)].trigger[1]
                          /\ entries[k].blockingReason = "Enforced deny rule"

\* a record whose trigger qualifies in both passes got two findings for it,
\* the pending one first, although it also has an enforced Allow hit with a
\* trigger
C19_Witness ==
    /\ pc = "done"
    /\ \E i \in DOMAIN result.blockedFlows :
          LET entries == result.blockedFlows[i].blockingPolicies
          IN /\ Len(entries) = 2
             /\ entries[1].triggerPolicy = entries[2].triggerPolicy
             /\ entries[1].blockingReason = "End of tier default deny"
             /\ entries[2].blockingReason = "Enforced deny rule"
             /\ \E h \in Range(ExpectedDenied[i].policies.enforced) :
                   h.action = "Allow" /\ h.trigger # NoTrigger

\* the kind of the policy that lookup number k of callback i asks for
LookupKind(i, k) == Lookups(blockedLogs[i])[k].hit.trigger[1].kind

\* C20: a lookup whose policy kind is none of NetworkPolicy,
\* GlobalNetworkPolicy, CalicoNetworkPolicy (a staged kind, a missing kind)
\* spawns no kubectl process and resolves to null: its finding has
\* policyYaml = null and no error.
C20_UnsupportedKindNoSpawn ==
    \A i \in DOMAIN tasks :
        \A k \in DOMAIN tasks[i].spawned :
            LookupKind(i, k) \notin {"NetworkPolicy", "GlobalNetworkPolicy", "CalicoNetworkPolicy"} =>
                /\ tasks[i].spawned[k] = <<>>
                /\ k <= Len(tasks[i].blockingPolicies) =>
                      /\ tasks[i].blockingPolicies[k].policyYaml = NoValue
                      /\ "error" \notin DOMAIN tasks[i].blockingPolicies[k]

\* a lookup of a staged kind and a lookup without kind have settled without
\* kubectl, and a lookup of a supported kind has spawned kubectl
C20_Witness ==
    /\ \E i \in DOMAIN tasks : \E k \in DOMAIN tasks[i].blockingPolicies :
          LookupKind(i, k) = "StagedNetworkPolicy" /\ tasks[i].spawned[k] = <<>>
    /\ \E i \in DOMAIN tasks : \E k \in DOMAIN tasks[i].blockingPolicies :
          LookupKind(i, k) = NoValue /\ tasks[i].spawned[k] = <<>>
               /\ tasks[i].blockingPolicies[k].policyYaml = NoValue

-----------------------------------------------------------------------------
(* Properties of generateCalicoNetworkPolicies *)

\* the destination port of the sub-group egress rule number k of policy
\* number p was built from
SubGroupPort(p, k) == destFlowsOf[p][k][1].dest_port

Rule(p, k) == policies[p].spec.egress[k]

RulePositions == {pk \in (DOMAIN policies) \X (1..MaxAggregatedLogs + 1) : pk[2] \in DOMAIN policies[pk[1]].spec.egress}

\* the records some egress rule was built from
RuleRecords == UNION {Range(destFlowsOf[pk[1]][pk[2]]) : pk \in RulePositions}

\* C14 (as claimed): no egress rule is emitted for a destination sub-group
\* whose destination port is 0 or null.
C14_NoRuleForPortZeroOrNull ==
    \A pk \in RulePositions : SubGroupPort(pk[1], pk[2]) \notin {Num(0), JsNull}

\* C14 (amended): a destination sub-group whose destination port is 0 or
\* null still gets its egress rule, and that rule carries no ports entry:
\* it allows the destination and protocol on every port.
C14_PortZeroOrNullRuleWithoutPorts ==
    /\ \A pk \in RulePositions :
          SubGroupPort(pk[1], pk[2]) \in {Num(0), JsNull} => "ports" \notin DOMAIN Rule(pk[1], pk[2])
    /\ pc = "done" =>
          \A i \in DOMAIN aggregatedLogs :
              LET log == aggregatedLogs[i]
              IN (/\ log.source_namespace = namespace
                  /\ Truthy(ExtractLabelValue(log.source_labels, selectorKey))
                  /\ log.dest_port \in {Num(0), JsNull}) => log \in RuleRecords

\* the returned policy has a rule without ports for a port-0 sub-group and a
\* rule without ports for a null-port sub-group
C14_Witness ==
    /\ pc = "done"
    /\ \E pk \in RulePositions :
          SubGroupPort(pk[1], pk[2]) = Num(0) /\ "ports" \notin DOMAIN Rule(pk[1], pk[2])
    /\ \E pk \in RulePositions :
          SubGroupPort(pk[1], pk[2]) = JsNull /\ "ports" \notin DOMAIN Rule(pk[1], pk[2])

\* C15: an egress rule carries a ports entry exactly when the destination
\* port of its flows is present, non-null and non-zero, and then the entry
\* is that port; with the port absent, null or 0 the rule has no ports entry.
C15_PortsOnlyForRealPort ==
    \A pk \in RulePositions :
        LET port == SubGroupPort(pk[1], pk[2])
            rule == Rule(pk[1], pk[2])
        IN /\ "ports" \in DOMAIN rule <=> (IsNum(port) /\ port # Num(0))
           /\ "ports" \in DOMAIN rule => rule.ports[1].port = port

\* C16: only records whose source namespace is the target namespace are
\* used: every record grouped under a selector value and every record an
\* egress rule is built from has that source namespace, and a record that
\* only has the target namespace as destination is in no group and behind no
\* rule.
C16_SourceNamespaceOnly ==
    /\ \A g \in DOMAIN sourceGroups : \A log \in Range(sourceGroups[g].value) :
          log.source_namespace = namespace
    /\ \A log \in RuleRecords : log.source_namespace = namespace
    /\ \A i \in DOMAIN aggregatedLogs :
          (aggregatedLogs[i].dest_namespace = namespace /\ aggregatedLogs[i].source_namespace # namespace) =>
              /\ aggregatedLogs[i] \notin RuleRecords
              /\ \A g \in DOMAIN sourceGroups : aggregatedLogs[i] \notin Range(sourceGroups[g].value)
    /\ pc = "done" =>
          /\ Len(result) = Cardinality({ExtractLabelValue(aggregatedLogs[i].source_labels, selectorKey) :
                                           i \in {j \in DOMAIN aggregatedLogs :
                                                     aggregatedLogs[j].source_namespace = namespace}} \ {JsNull})
          /\ \A p \in DOMAIN result : result[p].metadata.namespace = namespace

\* a labelled record whose destination only is in the namespace was passed
\* first, a record of the namespace second; one policy came out
C16_Witness ==
    /\ pc = "done"
    /\ Len(aggregatedLogs) = 2
    /\ aggregatedLogs[1].source_namespace # namespace
    /\ aggregatedLogs[1].dest_namespace = namespace
    /\ Truthy(ExtractLabelValue(aggregatedLogs[1].source_labels, selectorKey))
    /\ aggregatedLogs[2].source_namespace = namespace
    /\ Len(result) = 1

-----------------------------------------------------------------------------
(* Properties of the MCP server *)

\* a request is being handled or has been answered
HasRequest == pc = "handling" \/ pc = "crashed" \/ served > 0

Answered == HasRequest /\ todo = <<>> /\ pc # "crashed"

\* the request lacks a parameter its tool requires
LacksRequired(req) ==
    \/ req.name = "get_namespace_flow_summary" /\ "namespace" \notin req.arguments
    \/ req.name = "generate_network_policies"
          /\ ("namespace" \notin req.arguments \/ "selectorKey" \notin req.arguments)

\* C17: a get_namespace_flow_summary request without namespace and a
\* generate_network_policies request without namespace or without
\* selectorKey never lead to a getFlowLogs call, and are answered with an
\* error text.
C17_MissingParameterNoFetch ==
    (HasRequest /\ LacksRequired(request)) =>
        /\ \A i \in DOMAIN calls : calls[i] # "getFlowLogs"
        /\ Answered => response.content[1].text \in
                           {"Error: namespace parameter is required",
                            "Error: selectorKey is required",
                            "Error executing tool: Cannot destructure property of undefined"}

\* C18: no request terminates the server: whatever the tool name and
\* whichever call fails, the server keeps running and every answered request
\* got a text response.
C18_NoRequestTerminatesServer ==
    /\ server = "running"
    /\ Answered => /\ Len(response.content) = 1
                   /\ response.content[1].type = "text"

-----------------------------------------------------------------------------
(* Properties of the summary document as a whole *)

\* the entry of flowMap as the summary prints it
Printed(k) == ProjectFlow(flowMap[k].value)

SummaryReturned == pc = "done" /\ namespaceLogs # <<>>

\* C27 (as claimed): in the summary a flow whose key action is Deny has
\* status BLOCKED and a flow whose key action is Allow has status ALLOWED,
\* whatever reporter its records carry.
C27_StatusFollowsKeyAction ==
    SummaryReturned =>
        \A k \in DOMAIN flowMap :
            \A m \in contributors[k] :
                /\ Printed(k) \in Range(result.flows)
                /\ namespaceLogs[m].action = "Deny" => Printed(k).status = "[alert] BLOCKED"
                /\ namespaceLogs[m].action = "Allow" => Printed(k).status = "[ok] ALLOWED"

\* C28 (as claimed): the summary's time window starts no later than any of
\* its flows starts and ends no earlier than any of its flows ends.
C28_WindowCoversEveryFlow ==
    SummaryReturned =>
        \A i \in DOMAIN result.flows :
            /\ ParseTime(result.analysis.timeWindow.start) <= ParseTime(result.flows[i].timeRange.start)
            /\ ParseTime(result.analysis.timeWindow.end) >= ParseTime(result.flows[i].timeRange.end)

PacketsOfRecord == [m \in DOMAIN namespaceLogs |-> namespaceLogs[m].packets_in + namespaceLogs[m].packets_out]
BytesOfRecord == [m \in DOMAIN namespaceLogs |-> namespaceLogs[m].bytes_in + namespaceLogs[m].bytes_out]

\* C29: the summary's total packets and bytes are the sums of in + out over
\* all records that touch the namespace; the number of flows is the number of
\* allowed plus the number of blocked flows and equals totalUniqueFlows, every
\* flow being counted in exactly one of the two.
C29_TotalsConserved ==
    SummaryReturned =>
        /\ \A m \in DOMAIN namespaceLogs : TouchesNamespace(namespaceLogs[m], namespace)
        /\ Len(namespaceLogs) = Cardinality({i \in DOMAIN allLogs : TouchesNamespace(allLogs[i], namespace)})
        /\ result.statistics.traffic.totalPackets = SumOver(DOMAIN namespaceLogs, PacketsOfRecord)
        /\ result.statistics.traffic.totalBytes = SumOver(DOMAIN namespaceLogs, BytesOfRecord)
        /\ result.statistics.flows.total = result.statistics.flows.allowed + result.statistics.flows.blocked
        /\ result.statistics.flows.total = result.analysis.totalUniqueFlows
        /\ result.statistics.flows.total = Len(result.flows)
        /\ result.statistics.flows.blocked
             = Cardinality({i \in DOMAIN result.flows : result.flows[i].status = "[alert] BLOCKED"})
        /\ result.statistics.flows.allowed
             = Cardinality({i \in DOMAIN result.flows : result.flows[i].status = "[ok] ALLOWED"})
        /\ \A i \in DOMAIN result.flows :
              (result.flows[i].status = "[alert] BLOCKED") # (result.flows[i].status = "[ok] ALLOWED")

\* a summary over three records: two merged into one allowed flow, the third
\* a blocked flow of its own
C29_Witness ==
    /\ SummaryReturned
    /\ Len(namespaceLogs) = 3
    /\ Len(flowMap) = 2
    /\ \E k \in DOMAIN flowMap : Cardinality(contributors[k]) = 2
    /\ result.statistics.flows.blocked = 1
    /\ result.statistics.flows.allowed = 1
    /\ result.statistics.traffic.totalPackets > 18

FormattedActions == {"[ok] Allow", "[alert] Deny", "[x] N/A"}

\* C30: all records merged into one flow carry the same action, the action of
\* the flow's key; each side action of the flow is "N/A" or that action, at
\* every point of the aggregation, and no summary prints a '+'-joined action.
C30_SideActionsAreKeyAction ==
    /\ \A k \in DOMAIN flowMap :
          \A m \in contributors[k] :
              LET action == namespaceLogs[m].action IN
              /\ \A n \in contributors[k] : namespaceLogs[n].action = action
              /\ flowMap[k].value.sourceAction \in {"N/A", action}
              /\ flowMap[k].value.destAction \in {"N/A", action}
    /\ SummaryReturned =>
          \A i \in DOMAIN result.flows :
              /\ result.flows[i].source.action \in FormattedActions
              /\ result.flows[i].destination.action \in FormattedActions

\* an Allow and a Deny record of one connection followed by a second record
\* of the same reporter and action as the first: the third record met a set
\* side action and merged into the first flow
C30_Witness ==
    /\ SummaryReturned
    /\ Len(namespaceLogs) = 3
    /\ SameConnection(namespaceLogs[1], namespaceLogs[2])
    /\ namespaceLogs[1].action # namespaceLogs[2].action
    /\ namespaceLogs[3] = namespaceLogs[1]
    /\ namespaceLogs[1].reporter = "Src"
    /\ Len(flowMap) = 2
    /\ contributors[1] = {1, 3}

-----------------------------------------------------------------------------
(* Properties of the analyzeBlockedFlows header *)

ConnectionTriple(log) == <<log.source_name, log.dest_name, log.dest_port>>

AnalysisReturned == pc = "done" /\ blockedLogs # <<>>

\* C21: the header of the analysis agrees with the selected Deny records:
\* totalBlockedFlows is their number, uniqueBlockedConnections the number of
\* distinct (source name, destination name, destination port) triples among
\* them, and the time window runs from the earliest start instant to the
\* latest end instant of their parsed timestamps.
C21_HeaderAgreesWithDenyRecords ==
    AnalysisReturned =>
        LET header == result.analysis
            selected == {i \in DOMAIN allLogs :
                            /\ allLogs[i].action = "Deny"
                            /\ namespace # NoValue => TouchesNamespace(allLogs[i], namespace)}
        IN /\ header.totalBlockedFlows = Cardinality(selected)
           /\ header.totalBlockedFlows = Len(result.blockedFlows)
           /\ header.uniqueBlockedConnections = Cardinality({ConnectionTriple(allLogs[i]) : i \in selected})
           /\ \E i \in selected : header.timeWindow.start = ParseTime(allLogs[i].start_time)
           /\ \A i \in selected : header.timeWindow.start <= ParseTime(allLogs[i].start_time)
           /\ \E i \in selected : header.timeWindow.end = ParseTime(allLogs[i].end_time)
           /\ \A i \in selected : header.timeWindow.end >= ParseTime(allLogs[i].end_time)

\* two denied records between the same two names on different ports, the
\* first with fractional timestamps that sort before the second's as text
\* but are later instants
C21_Witness ==
    /\ AnalysisReturned
    /\ Len(blockedLogs) = 2
    /\ blockedLogs[1].source_name = blockedLogs[2].source_name
    /\ blockedLogs[1].dest_name = blockedLogs[2].dest_name
    /\ blockedLogs[1].dest_port = 443 /\ blockedLogs[2].dest_port = 80
    /\ StrLess(blockedLogs[1].start_time, blockedLogs[2].start_time)
    /\ result.analysis.uniqueBlockedConnections = 2
    /\ result.analysis.timeWindow = [start |-> 1000, end |-> 2500]

-----------------------------------------------------------------------------
(* Properties of extractLabelValue *)

EqualsSigns(pair) == {i \in DOMAIN pair : pair[i] = "="}

FirstEquals(pair) == CHOOSE i \in EqualsSigns(pair) : \A j \in EqualsSigns(pair) : i <= j

\* the end of the text that follows the first '=': the next '=' or the end of the pair
ValueEnd(pair) ==
    LET later == EqualsSigns(pair) \ {FirstEquals(pair)}
    IN IF later = {} THEN Len(pair)
       ELSE (CHOOSE i \in later : \A j \in later : i <= j) - 1

WrittenKey(pair) == Trim(SubSeq(pair, 1, FirstEquals(pair) - 1))

\* the value of a pair: all that follows its first '='
WrittenValue(pair) == Trim(SubSeq(pair, FirstEquals(pair) + 1, Len(pair)))

\* the text between the first '=' and the next one
WrittenValueUpToNextEquals(pair) == Trim(SubSeq(pair, FirstEquals(pair) + 1, ValueEnd(pair)))

FirstOf(S) == CHOOSE i \in S : \A j \in S : i <= j

\* C22 (as claimed): extractLabelValue returns the value of the first pair
\* whose trimmed key is the requested key, and null, without throwing, when
\* the label string is missing or has no pair with that key.
C22_FirstPairWithKey ==
    pc = "done" =>
        LET withKey == {i \in DOMAIN pairsWritten :
                           /\ EqualsSigns(pairsWritten[i]) # {}
                           /\ WrittenKey(pairsWritten[i]) = keyArg}
        IN /\ thrown = NoValue
           /\ result = IF withKey = {} THEN JsNull ELSE WrittenValue(pairsWritten[FirstOf(withKey)])

\* C22 (amended): extractLabelValue returns, for the first pair whose trimmed
\* key is the requested key and whose trimmed text between its first '=' and
\* its next '=' (or its end) is not empty, that text; it returns null, without
\* throwing, when the label string is missing or has no such pair.
C22_FirstPairWithKeyAndValue ==
    pc = "done" =>
        LET withKey == {i \in DOMAIN pairsWritten :
                           /\ EqualsSigns(pairsWritten[i]) # {}
                           /\ WrittenKey(pairsWritten[i]) = keyArg
                           /\ WrittenValueUpToNextEquals(pairsWritten[i]) # <<>>}
        IN /\ thrown = NoValue
           /\ result = IF withKey = {} THEN JsNull
                       ELSE WrittenValueUpToNextEquals(pairsWritten[FirstOf(withKey)])

\* "a= | a = x ": the first pair has the key and no value, the second, written
\* with spaces, is returned
C22_Witness ==
    /\ pc = "done"
    /\ keyArg = <<"a">>
    /\ pairsWritten = << <<"a", "=">>, <<" ", "a", " ", "=", " ", "x", " ">> >>
    /\ result = <<"x">>

-----------------------------------------------------------------------------
(* Properties of the port-forward *)

Alive(c) == children[c].state = "live"

\* C23 (as claimed): while a port-forward child is alive and stopPortForward
\* has not been called since it was started, isPortForwardRunning() is true.
C23_RunningWhileChildAlive ==
    \A c \in DOMAIN children :
        (Alive(c) /\ ~children[c].stopCalled) => IsPortForwardRunning

\* C24 (as claimed): at most one port-forward child is alive at any time.
C24_AtMostOneLiveChild ==
    Cardinality({c \in DOMAIN children : Alive(c)}) <= 1

NewlyFulfilled(s) ==
    /\ setups'[s].promise = "fulfilled"
    /\ s \in DOMAIN setups => setups[s].promise = "pending"

Reported(call) == call.child # 0 /\ children[call.child].reported

\* C25 (as claimed): setupPortForward resolves only after its child has
\* reported 'Forwarding from', and a call whose child has not reported by the
\* time its timer fired is rejected.
C25_ResolvesOnlyAfterForwarding ==
    /\ [][\A s \in DOMAIN setups' :
              NewlyFulfilled(s) => (setups'[s].child # 0 /\ children'[setups'[s].child].reported)]_vars
    /\ [](\A s \in DOMAIN setups :
              (setups[s].timer = "fired" /\ ~Reported(setups[s])) => setups[s].promise = "rejected")

\* C25 (amended): setupPortForward resolves only at once when the service
\* already holds a port-forward child, or when the child it spawned reports
\* 'Forwarding from', or when its 5-second timer fires while the service
\* holds a child; once its timer has fired the call is settled, rejected if
\* none of these happened.
C25_ResolvesOnForwardingHeldChildOrTimer ==
    /\ [][\A s \in DOMAIN setups' :
              NewlyFulfilled(s) =>
                  \/ s \notin DOMAIN setups /\ portForwardProcess # 0
                  \/ /\ s \in DOMAIN setups
                     /\ setups[s].child # 0
                     /\ ~children[setups[s].child].reported
                     /\ children'[setups[s].child].reported
                  \/ /\ s \in DOMAIN setups
                     /\ setups[s].timer = "armed" /\ setups'[s].timer = "fired"
                     /\ portForwardProcess # 0]_vars
    /\ [](\A s \in DOMAIN setups :
              /\ setups[s].timer = "fired" => setups[s].promise # "pending"
              /\ setups[s].promise = "fulfilled" =>
                    setups[s].step = "returned" \/ setups[s].resolved)

\* a call resolved by its timer, its child silent, and a second call that
\* returned at once
C25_Witness ==
    \E s, t \in DOMAIN setups :
        /\ setups[s].promise = "fulfilled" /\ setups[s].timer = "fired"
        /\ ~Reported(setups[s])
        /\ setups[t].step = "returned"

-----------------------------------------------------------------------------
(* Properties of connect_to_cluster *)

\* C26 (as claimed): every kubectl command spawned for a connect_to_cluster
\* request that names a kubeconfig is given that kubeconfig, and after such a
\* request succeeded a policy lookup is given it too.
C26_RequestKubeconfigUsed ==
    /\ \A i \in DOMAIN kubectlLog :
          LET run == kubectlLog[i] IN
          (run.request # <<>> /\ run.request.kubeconfig # NoValue) =>
              run.kubeconfig = run.request.kubeconfig
    /\ (/\ kubectlLog # <<>>
        /\ kubectlLog[Len(kubectlLog)].command = "get-policy"
        /\ connected # <<>>
        /\ connected[1] # NoValue) =>
          kubectlLog[Len(kubectlLog)].kubeconfig = connected[1]

====
